---- MODULE Spec2Model ----
(***************************************************************************)
(* The IPC protocol engine of vs/base/parts/ipc/node/ipc.ts: one          *)
(* connection between an IPCClient peer and an IPCServer, seen in the      *)
(* direction peer -> server: the peer's ChannelClient issues requests,     *)
(* the server's per-connection ChannelServer answers them.  A second part *)
(* models the IPCServer with several connections: the handshake on the     *)
(* first frame, the registry of peers, the calls routed to a peer by id    *)
(* (direction server -> peer) and the calls the peers make to the          *)
(* channels registered on the IPCServer.                                   *)
(*                                                                         *)
(* TPromise is the WinJS promise: callbacks run synchronously when a       *)
(* promise settles, a settled promise ignores later complete/error/cancel  *)
(* calls, and cancel() on a pending promise runs its cancel callback and   *)
(* rejects it with Error('Canceled'); cancel() on p.then(a, b) cancels p,  *)
(* whose rejection then runs b (the tests 'cancel call with                *)
(* TPromise.cancel' observe exactly this 'Canceled' rejection).            *)
(***************************************************************************)
EXTENDS Integers, Sequences, FiniteSets, TLC

\* ---------------------------------------------------------------- bounds
MaxRequests == 2     \* ids the client engine may allocate (lastRequestId cap)
MaxListeners == 2    \* local subscribers one event may have at a time
MaxFires == 2        \* emissions of the server-side 'pong' event
MaxSubscriptions == 2 \* times an event emitter may get a first subscriber, over all events
MaxConnections == 2  \* connections the IPCServer accepts
MaxRouted == 1       \* calls made through IPCServer.getChannel(name, router)
MaxPeerCalls == 1    \* Promise requests the connected peers send to the server, over all peers
MaxRaw == 4            \* frames a peer writes on the protocol by hand
MaxJunk == 2           \* frames with an unknown type tag or that do not decode
MaxHeaderLen == 2      \* elements of a header array that is not a frame's
MaxBodyLen == 2        \* characters, bytes or elements of a body
MaxStackLen == 3       \* characters of an error's stack
MaxChildren == 2       \* child processes the child-process Client forks
MaxCpRequests == 2     \* calls and subscriptions made on the child-process Client
MaxDelayed == 3        \* calls and listens made on a delayed channel
MaxCross == 3          \* frames of the other engine's family, or for no handler, put on a pipe

\* ------------------------------------------------------ program constants
\* enum RequestType
Promise == 100
PromiseCancel == 101
EventListen == 102
EventDispose == 103
\* enum ResponseType
Initialize == 200
PromiseSuccess == 201
PromiseError == 202
PromiseErrorObj == 203
EventFire == 204
\* enum State
\* a type tag outside each enum, and the type read from a buffer that
\* deserialize() throws on
UnknownRequest == EventDispose + 1
UnknownResponse == EventFire + 1
Malformed == 0 - 2
RequestTypes == {Promise, PromiseCancel, EventListen, EventDispose}
ResponseTypes == {Initialize, PromiseSuccess, PromiseError, PromiseErrorObj, EventFire}

Uninitialized == 0
Idle == 1

Ids == 0 .. (MaxRequests - 1)
\* an absent number: the id of a frame without id, the type of the identity
\* frame (raw bytes of the peer id, no header)
NoId == 0 - 1
Identity == NoId

\* Commands of the channel registered under 'testchannel'.  'marco' is
\* settled with 'polo' when call returns, 'error' is rejected with an Error
\* when call returns, 'neverComplete' returns a pending promise.  A channel
\* is an arbitrary collaborator, so the pending promise may later settle
\* (action CommandSettle) or stay pending forever.
Commands == {"marco", "error", "neverComplete"}
TestChannelId == "testchannel"

\* Connections of the IPCServer, the ids peers present, the router-backed calls
Connections == 1 .. MaxConnections
NoConnection == NoId
PeerIds == {"alpha", "beta"}
RoutedCalls == 1 .. MaxRouted
NoRouted == [st |-> "none", target |-> "", conn |-> NoConnection, id |-> NoId]

\* A second channel, the ExtensionManagementChannel, and the commands of its
\* switch that the model uses
ExtensionsChannelId == "extensions"
ExtensionCommands == {"getInstalled"}

\* The channels registered on the connection's ChannelServer
RegisteredChannels == {TestChannelId, ExtensionsChannelId}

VARIABLES
  \* ---- ChannelClient (peer side)
  state,            \* State.Uninitialized | State.Idle
  lastRequestId,    \* next id to allocate
  bufferedRequests, \* ids of the buffered IRequests, in push order
  handlers,         \* ids that have an entry in this.handlers
  activeRequests,   \* ids whose cancel disposable is in this.activeRequests
  kind,             \* id -> "none" | "call" | "event"  (what the id was allocated for)
  cmdOf,            \* id -> request.raw.name
  chanOf,           \* id -> request.raw.channelName
  future,           \* id -> state and value of the TPromise returned by requestPromise
  viaBuffer,        \* id -> TRUE when the future was made by bufferRequest
  settleCalls,      \* id -> how often c(..), e(..) or cancel() reached the caller's future
  cancelled,        \* ids whose pending future had cancel() run on it (caller or dispose)
  token,            \* id -> "none" | "live" | "cancelled": the CancellationToken the caller passed
  listeners,        \* id -> number of local subscribers of the event's emitter
  initWaiters,      \* ids whose uninitializedPromise is pending, in whenInitialized order
  waitCancelled,    \* ids whose uninitializedPromise was cancelled by onLastListenerRemove
  delivered,        \* id -> values the emitter fired to its subscribers, in order
  clientDisposed,   \* ChannelClient.dispose() ran (protocolListener removed)
  \* ---- transport
  wire,             \* every frame the peer handed to protocol.send, in order
  serverRead,       \* how many frames of wire the server side has consumed
  sent,             \* every frame the ChannelServer handed to protocol.send, in order
  clientRead,       \* how many frames of sent the peer has consumed
  \* ---- ChannelServer (server side, built by IPCServer on the first message)
  server,           \* "none" | "live" | "disposed"
  srvActive,        \* id -> "none" | "promise" | "event"  (this.activeRequests)
  command,          \* id -> state and value of the promise channel.call returned
  pong,             \* ids subscribed to the service's pong emitter, in order
  fires,            \* emissions of pong so far
  \* ---- IPCServer with several connections (c ranges over Connections)
  channels,         \* IPCServer.channels: the registered channel names
  channelClients,   \* IPCServer.channelClients: peer id -> connection of the registered ChannelClient
  connection,       \* c -> "none" | "connected" | "live" | "closed"
  up,               \* c -> frames the peer handed to its protocol.send, in order
  upRead,           \* c -> how many frames of up[c] the server side has consumed
  down,             \* c -> frames the server's engines of c handed to protocol.send
  downRead,         \* c -> how many frames of down[c] the peer has consumed
  engineChannels,   \* c -> the channel names registered on the connection's ChannelServer
  clientState,      \* c -> state of the connection's server-side ChannelClient
  serverSeen,       \* c -> frames delivered to the connection's ChannelServer.onRawMessage
  clientSeen,       \* c -> frames delivered to the connection's ChannelClient.onRawMessage
  routed,           \* r -> the r-th call made through a router-backed channel
  \* ---- frame codec and error materialization
  codec,            \* the buffer or error in passage: what was written, what was read back
  \* ---- child-process Client
  cp,               \* its fields, the children it forked and the requests made on it
  \* ---- delayed channel
  delayed           \* the future P, the calls and listens made, what reached the inner channel

ipcVars == << channels, channelClients, connection, up, upRead, down, downRead,
             engineChannels, clientState, serverSeen, clientSeen, routed >>

vars == << ipcVars, codec, cp, delayed, state, lastRequestId, bufferedRequests, handlers, activeRequests, kind,
           cmdOf, chanOf, future, viaBuffer, settleCalls, cancelled, token, listeners,
           initWaiters, waitCancelled, delivered, clientDisposed, wire, serverRead, sent, clientRead, server,
           srvActive, command, pong, fires >>

\* what lies outside the engines and the IPCServer
otherVars == << codec, cp, delayed >>

clientVars == << state, lastRequestId, bufferedRequests, handlers, activeRequests,
                 kind, cmdOf, chanOf, future, viaBuffer, settleCalls, cancelled, token,
                 listeners, initWaiters, waitCancelled, delivered, clientDisposed, ipcVars,
                 otherVars >>
serverVars == << server, srvActive, command, pong, fires, ipcVars, otherVars >>

\* the two engines of the single connection and the pipe between them
engineVars == << state, lastRequestId, bufferedRequests, handlers, activeRequests,
                 kind, cmdOf, chanOf, future, viaBuffer, settleCalls, cancelled, token,
                 listeners, initWaiters, waitCancelled, delivered, clientDisposed,
                 server, srvActive, command, pong, fires, wire, serverRead, sent,
                 clientRead >>

\* the variables of the single connection seen from the peer
connectionVars == << engineVars, otherVars >>

\* ---------------------------------------------------------------- frames
Frame(type, id, channelName, name, data) ==
  [type |-> type, id |-> id, channelName |-> channelName, name |-> name, data |-> data]

Request(type, id, channelName, name) == Frame(type, id, channelName, name, "")
IdRequest(type, id) == Frame(type, id, "", "", "")
Response(type, id, data) == Frame(type, id, "", "", data)

Remove(seq, x) == SelectSeq(seq, LAMBDA e : e # x)
RECURSIVE Concat(_, _)
Concat(f(_), seq) ==
  IF seq = << >> THEN << >> ELSE << f(Head(seq)) >> \o Concat(f, Tail(seq))

Pending == [st |-> "pending", value |-> ""]
Canceled == [st |-> "rejected", value |-> "Canceled"]
NoFuture == [st |-> "none", value |-> ""]
NoCodec == [op |-> "none"]
Children == 1 .. MaxChildren
NoChild == 0
CpRequests == 1 .. MaxCpRequests
NoCpRequest == [kind |-> "none", st |-> "none", child |-> NoChild, after |-> "none"]


\* -------------------------------------------------------------------- Init
\* State after `new IPCClient(protocol, id)`: the identity frame is written,
\* the ChannelClient is Uninitialized; the IPCServer has not yet seen the
\* connection's first message, so no ChannelServer exists.
Init ==
  /\ state = Uninitialized
  /\ lastRequestId = 0
  /\ bufferedRequests = << >>
  /\ handlers = {}
  /\ activeRequests = << >>
  /\ kind = [i \in Ids |-> "none"]
  /\ cmdOf = [i \in Ids |-> ""]
  /\ chanOf = [i \in Ids |-> ""]
  /\ future = [i \in Ids |-> NoFuture]
  /\ viaBuffer = [i \in Ids |-> FALSE]
  /\ settleCalls = [i \in Ids |-> 0]
  /\ cancelled = {}
  /\ token = [i \in Ids |-> "none"]
  /\ listeners = [i \in Ids |-> 0]
  /\ initWaiters = << >>
  /\ waitCancelled = {}
  /\ delivered = [i \in Ids |-> << >>]
  /\ clientDisposed = FALSE
  /\ wire = << Frame(Identity, NoId, "", "", "client1") >>
  /\ serverRead = 0
  /\ sent = << >>
  /\ clientRead = 0
  /\ server = "none"
  /\ srvActive = [i \in Ids |-> "none"]
  /\ command = [i \in Ids |-> NoFuture]
  /\ pong = << >>
  /\ fires = 0
  /\ channels = {}
  /\ channelClients = [p \in PeerIds |-> NoConnection]
  /\ connection = [c \in Connections |-> "none"]
  /\ up = [c \in Connections |-> << >>]
  /\ upRead = [c \in Connections |-> 0]
  /\ down = [c \in Connections |-> << >>]
  /\ downRead = [c \in Connections |-> 0]
  /\ engineChannels = [c \in Connections |-> {}]
  /\ clientState = [c \in Connections |-> Uninitialized]
  /\ serverSeen = [c \in Connections |-> 0]
  /\ clientSeen = [c \in Connections |-> 0]
  /\ routed = [r \in RoutedCalls |-> NoRouted]
  /\ codec = NoCodec
  /\ cp = [disposeDelayer |-> "idle", disposed |-> FALSE, activeRequests |-> << >>,
           forks |-> 0, child |-> NoChild, childSt |-> [c \in Children |-> "none"],
           killedBy |-> "none", requests |-> [r \in CpRequests |-> NoCpRequest]]
  /\ delayed = [P |-> "pending", ops |-> << >>, inner |-> << >>]

\* ----------------------------------------------------------- ChannelClient
\* requestPromise without the state test: every request goes to doRequest
ShouldBuffer_Never(s) == FALSE

\* requestPromise: `this.state === State.Uninitialized ? bufferRequest : doRequest`
ShouldBuffer(s) == s = Uninitialized

\* an allocation that reads lastRequestId without incrementing it
NextId_Same(id) == id

\* `const id = this.lastRequestId++` in requestPromise and requestEvent
NextId(id) == id + 1

\* doRequest's executor: the frame handed to sendRequest
DoRequestFrames(id, channelName, name) == << Request(Promise, id, channelName, name) >>

\* requestPromise(channelName, name, arg).  `tok` is the CancellationToken the
\* caller handed to channel.call as a third argument: getChannel's call
\* closure takes (command, arg) only, so the engine never sees it.
RequestPromise(channelName, name, tok) ==
  /\ lastRequestId < MaxRequests
  /\ LET id == lastRequestId IN
     /\ lastRequestId' = NextId(id)
     /\ kind' = [kind EXCEPT ![id] = "call"]
     /\ cmdOf' = [cmdOf EXCEPT ![id] = name]
     /\ chanOf' = [chanOf EXCEPT ![id] = channelName]
     /\ token' = [token EXCEPT ![id] = tok]
     /\ future' = [future EXCEPT ![id] = Pending]
     /\ activeRequests' = Append(activeRequests, id)
     /\ IF ShouldBuffer(state)
          THEN /\ bufferedRequests' = Append(bufferedRequests, id)
               /\ viaBuffer' = [viaBuffer EXCEPT ![id] = TRUE]
               /\ UNCHANGED << handlers, wire >>
          ELSE /\ handlers' = handlers \cup {id}
               /\ wire' = wire \o DoRequestFrames(id, channelName, name)
               /\ UNCHANGED << bufferedRequests, viaBuffer >>
  /\ UNCHANGED << state, settleCalls, cancelled, listeners, initWaiters, waitCancelled,
                  delivered, clientDisposed, serverRead, sent, clientRead >>
  /\ UNCHANGED serverVars

\* channel.call(command, arg)
Call(name) == RequestPromise(TestChannelId, name, "none")

\* getChannel(channelName).call(command, arg) for any channel name
CallOn(channelName, name) == RequestPromise(channelName, name, "none")

\* channel.call('neverCompleteCT', undefined, cancellationToken)
CallCT(tok) == RequestPromise(TestChannelId, "neverCompleteCT", tok)

\* cts.cancel() on the token of an earlier call: no listener of the engine is
\* on the token, so nothing but the token changes.
CancelToken(id) ==
  /\ token[id] = "live"
  /\ token' = [token EXCEPT ![id] = "cancelled"]
  /\ UNCHANGED << state, lastRequestId, bufferedRequests, handlers, activeRequests,
                  kind, cmdOf, chanOf, future, viaBuffer, settleCalls, cancelled, listeners,
                  initWaiters, waitCancelled, delivered, clientDisposed, wire, serverRead, sent,
                  clientRead >>
  /\ UNCHANGED serverVars

\* a cancel callback that sends PromiseCancel wherever the request is
CancelFrames_Always(id, buffered, s, flushed) == << IdRequest(PromiseCancel, id) >>

\* The frames the cancel callback of a pending future hands to sendRequest.
\* doRequest's callback always sends PromiseCancel.  bufferRequest's callback
\* (buffered = TRUE) returns early when the state is no longer Uninitialized,
\* after cancelling flushedRequest if there is one; that cancels the
\* doRequest promise, whose callback sends PromiseCancel.
CancelFrames(id, buffered, s, flushed) ==
  IF ~buffered THEN << IdRequest(PromiseCancel, id) >>
  ELSE IF s # Uninitialized
         THEN IF flushed THEN << IdRequest(PromiseCancel, id) >> ELSE << >>
         ELSE << >>

\* bufferRequest's cancel callback while Uninitialized: indexOf + splice
CancelSplice(b, id, buffered, s) ==
  IF buffered /\ s = Uninitialized THEN Remove(b, id) ELSE b

\* flushedRequest of a buffered call is set by request.flush(), which also
\* makes doRequest register the handler; a pending future keeps that handler.
Flushed(id) == viaBuffer[id] /\ id \in handlers

\* activeRequest.cancel() by the caller, on a future that is still pending
Cancel(id) ==
  /\ kind[id] = "call"
  /\ future[id].st = "pending"
  /\ wire' = wire \o CancelFrames(id, viaBuffer[id], state, Flushed(id))
  /\ bufferedRequests' = CancelSplice(bufferedRequests, id, viaBuffer[id], state)
  /\ cancelled' = cancelled \cup {id}
  /\ future' = [future EXCEPT ![id] = Canceled]
  /\ settleCalls' = [settleCalls EXCEPT ![id] = @ + 1]
  /\ activeRequests' = Remove(activeRequests, id)
  /\ UNCHANGED << state, lastRequestId, handlers, kind, cmdOf, chanOf, viaBuffer, listeners,
                  initWaiters, waitCancelled, delivered, clientDisposed, serverRead, sent,
                  clientRead >>
  /\ UNCHANGED << token, serverVars >>

\* requestEvent(channelName, name, arg): allocates the id and registers the handler
Listen ==
  /\ lastRequestId < MaxRequests
  /\ LET id == lastRequestId IN
     /\ lastRequestId' = NextId(id)
     /\ kind' = [kind EXCEPT ![id] = "event"]
     /\ cmdOf' = [cmdOf EXCEPT ![id] = "pong"]
     /\ chanOf' = [chanOf EXCEPT ![id] = TestChannelId]
     /\ handlers' = handlers \cup {id}
  /\ UNCHANGED << state, bufferedRequests, activeRequests, future, viaBuffer, settleCalls,
                  cancelled, listeners, initWaiters, waitCancelled, delivered, clientDisposed,
                  wire, serverRead,
                  sent, clientRead >>
  /\ UNCHANGED << token, serverVars >>

\* onFirstListenerAdd: whenInitialized() is settled when the state is Idle
FirstListenerFrames(id, s) ==
  IF s = Idle THEN << Request(EventListen, id, chanOf[id], cmdOf[id]) >> ELSE << >>

\* onLastListenerRemove that only drops the local subscription
LastListenerFrames_Silent(id, waiting) == << >>

\* onLastListenerRemove without the uninitializedPromise branch
LastListenerFrames_Always(id, waiting) == << IdRequest(EventDispose, id) >>

\* onLastListenerRemove: `waiting` is `uninitializedPromise !== null`
LastListenerFrames(id, waiting) ==
  IF waiting THEN << >> ELSE << IdRequest(EventDispose, id) >>

\* Subscriptions started so far: those whose EventListen went out, those
\* still waiting for Initialize and the events whose wait was cancelled
\* (bounds the subscribe/unsubscribe cycles).
Started ==
  Len(SelectSeq(wire, LAMBDA f : f.type = EventListen)) + Len(initWaiters)
    + Cardinality(waitCancelled)

IsWaiting(id) == \E i \in 1 .. Len(initWaiters) : initWaiters[i] = id

\* A local subscriber is added to the event returned by listen
Subscribe(id) ==
  /\ kind[id] = "event"
  /\ listeners[id] < MaxListeners
  /\ listeners[id] = 0 => Started < MaxSubscriptions
  /\ listeners' = [listeners EXCEPT ![id] = @ + 1]
  /\ IF listeners[id] = 0
       THEN /\ wire' = wire \o FirstListenerFrames(id, state)
            /\ initWaiters' = IF state = Idle THEN initWaiters ELSE Append(initWaiters, id)
       ELSE UNCHANGED << wire, initWaiters >>
  /\ UNCHANGED << state, lastRequestId, bufferedRequests, handlers, activeRequests, kind,
                  cmdOf, chanOf, future, viaBuffer, settleCalls, cancelled, waitCancelled,
                  delivered, clientDisposed, serverRead, sent, clientRead >>
  /\ UNCHANGED << token, serverVars >>

\* A local subscriber is removed
Unsubscribe(id) ==
  /\ kind[id] = "event"
  /\ listeners[id] > 0
  /\ listeners' = [listeners EXCEPT ![id] = @ - 1]
  /\ IF listeners[id] = 1
       THEN /\ wire' = wire \o LastListenerFrames(id, IsWaiting(id))
            /\ initWaiters' = Remove(initWaiters, id)
            /\ waitCancelled' = IF IsWaiting(id) THEN waitCancelled \cup {id} ELSE waitCancelled
       ELSE UNCHANGED << wire, initWaiters, waitCancelled >>
  /\ UNCHANGED << state, lastRequestId, bufferedRequests, handlers, activeRequests, kind,
                  cmdOf, chanOf, future, viaBuffer, settleCalls, cancelled, delivered,
                  clientDisposed, serverRead, sent, clientRead >>
  /\ UNCHANGED << token, serverVars >>


\* doRequest's handler without the PromiseErrorObj case
HandlerSettle_NoErrorObj(type, data) ==
  CASE type = PromiseSuccess -> [st |-> "resolved", value |-> data]
    [] type = PromiseError -> [st |-> "rejected", value |-> data]
    [] OTHER -> Pending

\* doRequest's handler: the future a terminal response settles the call with.
\* EventFire (or any other type) falls through the switch and settles nothing.
HandlerSettle(type, data) ==
  CASE type = PromiseSuccess -> [st |-> "resolved", value |-> data]
    [] type = PromiseError -> [st |-> "rejected", value |-> data]
    [] type = PromiseErrorObj -> [st |-> "rejectedObj", value |-> data]
    [] OTHER -> Pending

IsTerminal(type) == type \in {PromiseSuccess, PromiseError, PromiseErrorObj}

\* onResponse that looks up the oldest handler instead of handlers[response.id]
HandlerOf_Oldest(id) ==
  IF handlers = {} THEN NoId ELSE CHOOSE h \in handlers : \A g \in handlers : h <= g

\* onResponse: `const handler = this.handlers[response.id]`
HandlerOf(id) == IF id \in handlers THEN id ELSE NoId

\* onResponse(Initialize): state = Idle, then _onDidInitialize.fire() runs the
\* whenInitialized continuations (each sends its EventListen), then the
\* buffered requests are flushed in array order (each doRequest sends Promise).
ListenFrame(id) == Request(EventListen, id, chanOf[id], cmdOf[id])
PromiseFrame(id) == Request(Promise, id, chanOf[id], cmdOf[id])

\* a flush that walks bufferedRequests from its end
FlushFrames_Reversed(buffered) ==
  [i \in 1 .. Len(buffered) |-> PromiseFrame(buffered[Len(buffered) + 1 - i])]

\* `this.bufferedRequests.forEach(r => r.flush && r.flush())`
FlushFrames(buffered) == Concat(PromiseFrame, buffered)
InitializeFrames(waiters, buffered) == Concat(ListenFrame, waiters) \o FlushFrames(buffered)

SeqToSet(seq) == { seq[i] : i \in 1 .. Len(seq) }

OnInitialize ==
  /\ state' = Idle
  /\ wire' = wire \o InitializeFrames(initWaiters, bufferedRequests)
  /\ initWaiters' = << >>
  /\ handlers' = handlers \cup SeqToSet(bufferedRequests)
  /\ bufferedRequests' = << >>
  /\ UNCHANGED << future, settleCalls, activeRequests, delivered >>

\* an onResponse whose handler settles the future again, whatever it holds
OnResponse_Overwrites(f) ==
  LET h == HandlerOf(f.id) IN
  /\ UNCHANGED << state, wire, initWaiters, bufferedRequests, delivered >>
  /\ IF h # NoId /\ kind[h] = "call" /\ IsTerminal(f.type)
       THEN /\ handlers' = handlers \ {h}
            /\ settleCalls' = [settleCalls EXCEPT ![h] = @ + 1]
            /\ future' = [future EXCEPT ![h] = HandlerSettle(f.type, f.data)]
            /\ activeRequests' = Remove(activeRequests, h)
       ELSE UNCHANGED << handlers, future, settleCalls, activeRequests >>

\* onResponse for the other response types
OnResponse(f) ==
  LET h == HandlerOf(f.id) IN
  /\ UNCHANGED << state, wire, initWaiters, bufferedRequests >>
  /\ IF h = NoId
       THEN UNCHANGED << handlers, future, settleCalls, activeRequests, delivered >>
       ELSE IF kind[h] = "event"
         \* requestEvent's handler: emitter.fire(response.data), whatever the type
         THEN /\ delivered' = IF listeners[h] > 0
                                THEN [delivered EXCEPT ![h] = Append(@, f.data)]
                                ELSE delivered
              /\ UNCHANGED << handlers, future, settleCalls, activeRequests >>
         \* doRequest's handler
         ELSE IF IsTerminal(f.type)
           THEN /\ handlers' = handlers \ {h}
                /\ settleCalls' = [settleCalls EXCEPT ![h] = @ + 1]
                /\ IF future[h].st = "pending"
                     THEN /\ future' = [future EXCEPT ![h] = HandlerSettle(f.type, f.data)]
                          /\ activeRequests' = Remove(activeRequests, h)
                     ELSE UNCHANGED << future, activeRequests >>
                /\ UNCHANGED delivered
           ELSE UNCHANGED << handlers, future, settleCalls, activeRequests, delivered >>

\* ChannelClient.onRawMessage: the next frame the transport delivers
ClientReceive ==
  /\ ~clientDisposed
  /\ clientRead < Len(sent)
  /\ clientRead' = clientRead + 1
  /\ LET f == sent[clientRead + 1] IN
       CASE f.type = Initialize -> OnInitialize
         [] f.type \in ResponseTypes \ {Initialize} -> OnResponse(f)
         \* deserialize threw, or the switch's `default: return`
         [] OTHER -> UNCHANGED << state, wire, initWaiters, bufferedRequests, handlers,
                                 future, settleCalls, activeRequests, delivered >>
  /\ UNCHANGED << lastRequestId, kind, cmdOf, chanOf, viaBuffer, cancelled, listeners, waitCancelled,
                  clientDisposed, serverRead, sent >>
  /\ UNCHANGED << token, serverVars >>

\* dispose(this.activeRequests): every disposable cancels its future, in order
RECURSIVE DisposeWire(_, _)
DisposeWire(w, ids) ==
  IF ids = << >> THEN w
  ELSE DisposeWire(w \o CancelFrames(Head(ids), viaBuffer[Head(ids)], state, Flushed(Head(ids))),
                   Tail(ids))

RECURSIVE DisposeBuffer(_, _)
DisposeBuffer(b, ids) ==
  IF ids = << >> THEN b
  ELSE DisposeBuffer(CancelSplice(b, Head(ids), viaBuffer[Head(ids)], state), Tail(ids))

\* a dispose that only stops listening to the protocol
ClientDispose_ListenerOnly ==
  /\ ~clientDisposed
  /\ clientDisposed' = TRUE
  /\ UNCHANGED << state, lastRequestId, bufferedRequests, handlers, activeRequests, kind,
                  cmdOf, chanOf, future, viaBuffer, settleCalls, cancelled, listeners,
                  initWaiters, waitCancelled, delivered, wire, serverRead, sent, clientRead >>
  /\ UNCHANGED << token, serverVars >>

\* ChannelClient.dispose()
ClientDispose ==
  /\ ~clientDisposed
  /\ clientDisposed' = TRUE
  /\ LET ids == SeqToSet(activeRequests) IN
     /\ wire' = DisposeWire(wire, activeRequests)
     /\ bufferedRequests' = DisposeBuffer(bufferedRequests, activeRequests)
     /\ future' = [i \in Ids |-> IF i \in ids THEN Canceled ELSE future[i]]
     /\ settleCalls' = [i \in Ids |-> IF i \in ids THEN settleCalls[i] + 1 ELSE settleCalls[i]]
     /\ cancelled' = cancelled \cup ids
  /\ activeRequests' = << >>
  /\ UNCHANGED << state, lastRequestId, handlers, kind, cmdOf, chanOf, viaBuffer, listeners,
                  initWaiters, waitCancelled, delivered, serverRead, sent, clientRead >>
  /\ UNCHANGED << token, serverVars >>

\* ----------------------------------------------------------- ChannelServer
\* a constructor that only subscribes to the protocol
ConstructorFrames_Nothing == << >>

\* ChannelServer.constructor: listen on the protocol, send Initialize
ConstructorFrames == << Response(Initialize, NoId, "") >>

\* IPCServer's onFirstMessage: the first frame of the connection is taken as
\* the peer id and the connection's ChannelServer is constructed.
ServerFirstMessage ==
  /\ server = "none"
  /\ serverRead = 0
  /\ serverRead < Len(wire)
  /\ serverRead' = 1
  /\ server' = "live"
  /\ sent' = sent \o ConstructorFrames
  /\ UNCHANGED << srvActive, command, pong, fires, wire, clientRead >>
  /\ UNCHANGED clientVars

\* The promise onPromise holds after `channel.call(request.name, request.arg)`
\* on the TestChannel.  The call has two arguments, so 'neverCompleteCT' gets
\* no token, dereferences undefined and throws; the catch wraps the TypeError.
CallResult(name) ==
  CASE name = "marco" -> [st |-> "resolved", value |-> "polo"]
    [] name = "error" -> [st |-> "rejected", value |-> "nice error"]
    [] name = "neverCompleteCT" -> [st |-> "rejected", value |-> "TypeError"]
    [] name = "neverComplete" -> Pending
    [] OTHER -> [st |-> "rejected", value |-> "not implemented"]

\* ExtensionManagementChannel.call: a known command returns the service's
\* promise, any other falls out of the switch and `throw new Error('Invalid
\* call')` runs; onPromise's catch wraps the thrown Error.
ExtensionCall(name) ==
  IF name \in ExtensionCommands THEN Pending
  ELSE [st |-> "rejected", value |-> "Invalid call"]

\* an onPromise without the try/catch: the exception leaves onPromise before
\* any continuation is attached, so nothing is ever sent for the request
ChannelCall_Uncaught(channelName, name) ==
  IF channelName = TestChannelId THEN CallResult(name) ELSE Pending

\* onPromise, lines 429-436: `this.channels[request.channelName]` is
\* undefined for a name that was never registered, so `channel.call` throws a
\* TypeError inside the try block and the catch wraps it.
ChannelCall(channelName, name) ==
  IF channelName \notin RegisteredChannels
    THEN [st |-> "rejected", value |-> "TypeError"]
    ELSE IF channelName = ExtensionsChannelId THEN ExtensionCall(name)
         ELSE CallResult(name)

\* onPromise's continuations: the response a settled command is answered with.
\* A rejection with an Error (also the 'Canceled' error of a cancelled
\* promise) becomes PromiseError, any other rejection PromiseErrorObj.
SettleFrames(id, p) ==
  CASE p.st = "resolved" -> << Response(PromiseSuccess, id, p.value) >>
    [] p.st = "rejected" -> << Response(PromiseError, id, p.value) >>
    [] p.st = "rejectedObj" -> << Response(PromiseErrorObj, id, p.value) >>
    [] OTHER -> << >>

\* onPromise: a command settled at return is answered at once, and only then
\* is the cancel disposable stored under the id (line 459 runs last).
OnPromise(f) ==
  LET p == ChannelCall(f.channelName, f.name) IN
  /\ command' = [command EXCEPT ![f.id] = p]
  /\ sent' = sent \o SettleFrames(f.id, p)
  /\ srvActive' = [srvActive EXCEPT ![f.id] = "promise"]
  /\ UNCHANGED pong

\* onEventListen: subscribe to the channel's event, store the subscription
OnEventListen(f) ==
  /\ pong' = Append(pong, f.id)
  /\ srvActive' = [srvActive EXCEPT ![f.id] = "event"]
  /\ UNCHANGED << command, sent >>

\* disposable.dispose() of an activeRequests entry.  For a call it is
\* requestPromise.cancel(): a pending command is cancelled, its promise
\* rejects with Error('Canceled') and onPromise's rejection continuation
\* answers with PromiseError; a settled command ignores the cancel.
DisposeFrames(id, entry, p) ==
  IF entry = "promise" /\ p.st = "pending" THEN SettleFrames(id, Canceled) ELSE << >>
DisposeCommand(entry, p) ==
  IF entry = "promise" /\ p.st = "pending" THEN Canceled ELSE p

\* a disposeActiveRequest that deletes the entry without disposing it
DisposeActiveRequest_KeepsListener(f) ==
  /\ srvActive' = [srvActive EXCEPT ![f.id] = "none"]
  /\ UNCHANGED << sent, command, pong >>

\* a disposeActiveRequest that answers every cancel, entry or not
DisposeActiveRequest_AlwaysAnswers(f) ==
  /\ sent' = sent \o SettleFrames(f.id, Canceled)
  /\ command' = [command EXCEPT ![f.id] = DisposeCommand(srvActive[f.id], @)]
  /\ pong' = Remove(pong, f.id)
  /\ srvActive' = [srvActive EXCEPT ![f.id] = "none"]

\* disposeActiveRequest, for PromiseCancel and EventDispose alike
DisposeActiveRequest(f) ==
  LET entry == srvActive[f.id] IN
  /\ sent' = sent \o DisposeFrames(f.id, entry, command[f.id])
  /\ command' = [command EXCEPT ![f.id] = DisposeCommand(entry, @)]
  /\ pong' = IF entry = "event" THEN Remove(pong, f.id) ELSE pong
  /\ srvActive' = [srvActive EXCEPT ![f.id] = "none"]

\* an onRawMessage whose switch falls through to the Promise case
ServerReceive_NoDefault ==
  /\ server = "live"
  /\ serverRead < Len(wire)
  /\ serverRead' = serverRead + 1
  /\ LET f == wire[serverRead + 1] IN
       CASE f.type = EventListen -> OnEventListen(f)
         [] f.type \in {PromiseCancel, EventDispose} -> DisposeActiveRequest(f)
         [] OTHER -> OnPromise(f)
  /\ UNCHANGED << server, fires, wire, clientRead >>
  /\ UNCHANGED clientVars

\* ChannelServer.onRawMessage + onRequest: the next frame of the connection
ServerReceive ==
  /\ server = "live"
  /\ serverRead < Len(wire)
  /\ serverRead' = serverRead + 1
  /\ LET f == wire[serverRead + 1] IN
       CASE f.type = Promise -> OnPromise(f)
         [] f.type = EventListen -> OnEventListen(f)
         [] f.type \in {PromiseCancel, EventDispose} -> DisposeActiveRequest(f)
         \* deserialize threw, or the switch's `default: return`
         [] OTHER -> UNCHANGED << srvActive, command, pong, sent >>
  /\ UNCHANGED << server, fires, wire, clientRead >>
  /\ UNCHANGED clientVars

\* IChannel.call returns a promise that the channel settles when it likes:
\* what a command still pending after onPromise may settle with on its own
Settlements ==
  { [st |-> "resolved", value |-> "done"],
    [st |-> "rejected", value |-> "failed"],
    [st |-> "rejectedObj", value |-> "obj"] }

\* The pending promise of a command settles: onPromise's continuation sends
\* the response and deletes the activeRequests entry.
CommandSettle(id, p) ==
  /\ command[id].st = "pending"
  /\ command' = [command EXCEPT ![id] = p]
  /\ sent' = sent \o SettleFrames(id, p)
  /\ srvActive' = [srvActive EXCEPT ![id] = "none"]
  /\ UNCHANGED << server, pong, fires, wire, serverRead, clientRead >>
  /\ UNCHANGED clientVars

\* The service fires its pong event (TestService.ping): every subscription
\* made by onEventListen sends EventFire with its own id, in subscription order.
FireFrames(subs, data) ==
  Concat(LAMBDA id : Response(EventFire, id, data), subs)

\* With no subscription the emitter has no listener and no engine code runs,
\* so only emissions with a subscription are steps of the model.
Ping ==
  /\ fires < MaxFires
  /\ pong # << >>
  /\ fires' = fires + 1
  /\ sent' = sent \o FireFrames(pong, ToString(fires + 1))
  /\ UNCHANGED << server, srvActive, command, pong, wire, serverRead, clientRead >>
  /\ UNCHANGED clientVars

\* a dispose that only stops listening and leaves the entries alone
ServerDispose_ListenerOnly ==
  /\ server = "live"
  /\ server' = "disposed"
  /\ UNCHANGED << sent, command, pong, srvActive, fires, wire, serverRead, clientRead >>
  /\ UNCHANGED clientVars

\* ChannelServer.dispose(): stop listening, dispose every entry (integer keys
\* are enumerated in ascending order), drop the map.
RECURSIVE DisposeAllFrames(_)
DisposeAllFrames(id) ==
  IF id >= MaxRequests THEN << >>
  ELSE DisposeFrames(id, srvActive[id], command[id]) \o DisposeAllFrames(id + 1)

ServerDispose ==
  /\ server = "live"
  /\ server' = "disposed"
  /\ sent' = sent \o DisposeAllFrames(0)
  /\ command' = [i \in Ids |-> DisposeCommand(srvActive[i], command[i])]
  /\ pong' = SelectSeq(pong, LAMBDA id : srvActive[id] # "event")
  /\ srvActive' = [i \in Ids |-> "none"]
  /\ UNCHANGED << fires, wire, serverRead, clientRead >>
  /\ UNCHANGED clientVars

\* ------------------------------------------------- IPCServer and IPCClient
\* The frame carrying the peer's id: `Buffer.from(id)`, not a serialized array
IdentityFrame(id) == Frame(Identity, NoId, "", "", id)

\* an IPCClient whose engines are built before the id is written
IPCClientFrames_EnginesFirst(id) ==
  << Response(Initialize, NoId, ""), IdentityFrame(id) >>

\* IPCClient's constructor: `protocol.send(Buffer.from(id))`, then the
\* ChannelClient (sends nothing), then the ChannelServer (sends Initialize).
IPCClientFrames(id) ==
  << IdentityFrame(id), Response(Initialize, NoId, "") >>

\* createConnection: a protocol pair, the IPCClient on one end, and the
\* connect event on the other, on which IPCServer subscribes its
\* onFirstMessage.  Connections are taken in order.
CreateConnection(c, id) ==
  /\ connection[c] = "none"
  /\ \A b \in Connections : b < c => connection[b] # "none"
  /\ connection' = [connection EXCEPT ![c] = "connected"]
  /\ up' = [up EXCEPT ![c] = IPCClientFrames(id)]
  /\ UNCHANGED << channels, channelClients, upRead, down, downRead, engineChannels,
                  clientState, serverSeen, clientSeen, routed >>
  /\ UNCHANGED connectionVars

\* IPCServer.registerChannel: the name is stored on the IPCServer only
RegisterChannel(channelName) ==
  /\ channelName \notin channels
  /\ channels' = channels \cup {channelName}
  /\ UNCHANGED << channelClients, connection, up, upRead, down, downRead, engineChannels,
                  clientState, serverSeen, clientSeen, routed >>
  /\ UNCHANGED connectionVars

\* `delete this.channelClients[id]`
DeleteClient(registry, id) == [registry EXCEPT ![id] = NoConnection]

\* a lookup that settles for any registered peer
GetClient_Any(clientId) ==
  IF \E p \in PeerIds : channelClients[p] # NoConnection
    THEN channelClients[CHOOSE p \in PeerIds : channelClients[p] # NoConnection]
    ELSE NoConnection

\* getClient: `this.channelClients[clientId]`, NoConnection when absent
GetClient(clientId) == channelClients[clientId]

\* a filter that lets every added client through
ClientAddedMatches_Any(id, clientId) == TRUE

\* getClient's filter on onClientAdded: `id => id === clientId`
ClientAddedMatches(id, clientId) == id = clientId

\* engines that are subscribed to the protocol from the connect event on
EngineDeliveries_FromConnect(st) == 1

\* How many times each engine's onRawMessage runs for a frame that arrives
\* while the connection is in state st: the engines are built inside the
\* onFirstMessage handler and subscribe there, so the frame that handler is
\* run for is not delivered to them.
EngineDeliveries(st) == IF st = "live" THEN 1 ELSE 0

\* The calls the IPCServer holds for connection c, and those it made so far
OnConnection(c) == {r \in RoutedCalls : routed[r].conn = c}
NumRouted == Cardinality({r \in RoutedCalls : routed[r].st # "none"})

\* The Promise request of the r-th routed call (its argument tells it apart)
RoutedFrame(r, id) == Frame(Promise, id, TestChannelId, "marco", r)

\* ChannelClient.requestPromise on the ChannelClient of connection c: the next
\* id of that engine; buffered while Uninitialized, written at once when Idle.
RequestOn(c, target) ==
  [st |-> IF clientState[c] = Uninitialized THEN "buffered" ELSE "sent",
   target |-> target, conn |-> c, id |-> Cardinality(OnConnection(c))]

\* onClientAdded.fire(id) for the new connection c: every call waiting in
\* getClient whose filter matches gets the client, in subscription order, and
\* requests on it; the engine was just built, so the requests are buffered.
ClientAdded(c, id) ==
  [r \in RoutedCalls |->
     IF routed[r].st = "waiting" /\ ClientAddedMatches(id, routed[r].target)
       THEN [st |-> "buffered", target |-> routed[r].target, conn |-> c,
             id |-> Cardinality({q \in 1 .. (r - 1) :
                       /\ routed[q].st = "waiting"
                       /\ ClientAddedMatches(id, routed[q].target)})]
       ELSE routed[r]]

\* an onFirstMessage that builds the engines and registers no channel on them
OnFirstMessage_NoChannels(c, f) ==
  /\ connection' = [connection EXCEPT ![c] = "live"]
  /\ down' = [down EXCEPT ![c] = ConstructorFrames]
  /\ engineChannels' = [engineChannels EXCEPT ![c] = {}]
  /\ channelClients' = [channelClients EXCEPT ![f.data] = c]
  /\ routed' = ClientAdded(c, f.data)
  /\ UNCHANGED clientState

\* IPCServer's onFirstMessage handler, lines 792-808
OnFirstMessage(c, f) ==
  /\ connection' = [connection EXCEPT ![c] = "live"]
  /\ down' = [down EXCEPT ![c] = ConstructorFrames]
  /\ engineChannels' = [engineChannels EXCEPT ![c] = channels]
  /\ channelClients' = [channelClients EXCEPT ![f.data] = c]
  /\ routed' = ClientAdded(c, f.data)
  /\ UNCHANGED clientState

\* ChannelServer.onPromise of a connection's engine: the lookup is made in
\* the channels registered on that engine
EngineCall(registered, channelName, name) ==
  IF channelName \notin registered
    THEN [st |-> "rejected", value |-> "TypeError"]
    ELSE IF channelName = ExtensionsChannelId THEN ExtensionCall(name)
         ELSE CallResult(name)

\* ChannelClient's Initialize handling: the buffered requests, oldest first
RECURSIVE FlushRouted(_, _)
FlushRouted(c, r) ==
  IF r > MaxRouted THEN << >>
  ELSE (IF routed[r].conn = c /\ routed[r].st = "buffered"
          THEN << RoutedFrame(r, routed[r].id) >> ELSE << >>) \o FlushRouted(c, r + 1)

\* A frame delivered to both engines of a live connection
OnMessage(c, f) ==
  CASE f.type = Promise ->
         /\ down' = [down EXCEPT ![c] =
                @ \o SettleFrames(f.id, EngineCall(engineChannels[c], f.channelName, f.name))]
         /\ UNCHANGED << connection, engineChannels, channelClients, routed, clientState >>
    [] f.type = Initialize ->
         /\ clientState' = [clientState EXCEPT ![c] = Idle]
         /\ down' = [down EXCEPT ![c] = @ \o FlushRouted(c, 1)]
         /\ routed' = [r \in RoutedCalls |->
                IF routed[r].conn = c /\ routed[r].st = "buffered"
                  THEN [routed[r] EXCEPT !.st = "sent"] ELSE routed[r]]
         /\ UNCHANGED << connection, engineChannels, channelClients >>
    [] f.type \in {PromiseSuccess, PromiseError, PromiseErrorObj} ->
         /\ routed' = [r \in RoutedCalls |->
                IF routed[r].conn = c /\ routed[r].id = f.id /\ routed[r].st = "sent"
                  THEN [routed[r] EXCEPT !.st =
                          IF f.type = PromiseSuccess THEN "resolved" ELSE "rejected"]
                  ELSE routed[r]]
         /\ UNCHANGED << connection, engineChannels, channelClients, down, clientState >>
    [] OTHER ->
         UNCHANGED << connection, engineChannels, channelClients, down, routed, clientState >>

\* The server end of connection c takes the next frame off its transport
ServerRead(c) ==
  /\ connection[c] \in {"connected", "live"}
  /\ upRead[c] < Len(up[c])
  /\ upRead' = [upRead EXCEPT ![c] = @ + 1]
  /\ serverSeen' = [serverSeen EXCEPT ![c] = @ + EngineDeliveries(connection[c])]
  /\ clientSeen' = [clientSeen EXCEPT ![c] = @ + EngineDeliveries(connection[c])]
  /\ IF connection[c] = "connected"
       THEN OnFirstMessage(c, up[c][upRead[c] + 1])
       ELSE OnMessage(c, up[c][upRead[c] + 1])
  /\ UNCHANGED << channels, up, downRead >>
  /\ UNCHANGED connectionVars

\* The peer's engines take the next frame: its ChannelServer answers a
\* Promise at once (the peer's channel resolves every command)
PeerRead(c) ==
  /\ connection[c] \in {"connected", "live"}
  /\ downRead[c] < Len(down[c])
  /\ downRead' = [downRead EXCEPT ![c] = @ + 1]
  /\ up' = [up EXCEPT ![c] =
        IF down[c][downRead[c] + 1].type = Promise
          THEN @ \o << Response(PromiseSuccess, down[c][downRead[c] + 1].id, "pong") >>
          ELSE @]
  /\ UNCHANGED << channels, channelClients, connection, upRead, down, engineChannels,
                  clientState, serverSeen, clientSeen, routed >>
  /\ UNCHANGED connectionVars

\* The Promise requests the peer of c wrote so far, and those of all peers
PeerCalls(c) == Len(SelectSeq(up[c], LAMBDA f : f.type = Promise))

RECURSIVE AllPeerCalls(_)
AllPeerCalls(c) == IF c > MaxConnections THEN 0 ELSE PeerCalls(c) + AllPeerCalls(c + 1)

\* The peer calls a command of a channel of the server.  Its ChannelClient is
\* Idle once it read the server's Initialize; calls made then are written at
\* once.
PeerRequest(c, channelName) ==
  /\ connection[c] = "live"
  /\ downRead[c] >= 1
  /\ AllPeerCalls(1) < MaxPeerCalls
  /\ up' = [up EXCEPT ![c] = @ \o << Request(Promise, PeerCalls(c), channelName, "marco") >>]
  /\ UNCHANGED << channels, channelClients, connection, upRead, down, downRead,
                  engineChannels, clientState, serverSeen, clientSeen, routed >>
  /\ UNCHANGED connectionVars

\* A call through the channel of IPCServer.getChannel(name, router) for which
\* router.routeCall answers `target`: getClient finds the peer's ChannelClient
\* and the call is requested on it, or the call waits for onClientAdded.
RoutedCall(target) ==
  /\ NumRouted < MaxRouted
  /\ LET r == NumRouted + 1
         c == GetClient(target)
     IN
     /\ routed' = [routed EXCEPT ![r] =
            IF c = NoConnection
              THEN [st |-> "waiting", target |-> target, conn |-> NoConnection,
                    id |-> NoId]
              ELSE RequestOn(c, target)]
     /\ down' = IF c # NoConnection /\ clientState[c] = Idle
                  THEN [down EXCEPT ![c] = @ \o << RoutedFrame(r, Cardinality(OnConnection(c))) >>]
                  ELSE down
  /\ UNCHANGED << channels, channelClients, connection, up, upRead, downRead,
                  engineChannels, clientState, serverSeen, clientSeen >>
  /\ UNCHANGED connectionVars

\* The caller cancels the promise of the r-th routed call: a call still
\* waiting for its peer is cancelled in getClient's promise, a buffered one is
\* taken out of the buffer, a written one is followed by PromiseCancel.
CancelRouted(r) ==
  /\ routed[r].st \in {"waiting", "buffered", "sent"}
  /\ routed' = [routed EXCEPT ![r].st = "cancelled"]
  /\ down' = IF routed[r].st = "sent"
               THEN [down EXCEPT ![routed[r].conn] = @ \o << IdRequest(PromiseCancel, routed[r].id) >>]
               ELSE down
  /\ UNCHANGED << channels, channelClients, connection, up, upRead, downRead,
                  engineChannels, clientState, serverSeen, clientSeen >>
  /\ UNCHANGED connectionVars

\* ChannelClient.dispose of connection c: every outstanding request is
\* cancelled, the written ones with a PromiseCancel
RECURSIVE DisposeRoutedFrames(_, _)
DisposeRoutedFrames(c, r) ==
  IF r > MaxRouted THEN << >>
  ELSE (IF routed[r].conn = c /\ routed[r].st = "sent"
          THEN << IdRequest(PromiseCancel, routed[r].id) >> ELSE << >>)
       \o DisposeRoutedFrames(c, r + 1)

\* The peer of c disconnects: the handler of lines 803-807 disposes both
\* engines of the connection and deletes the registry entry of its id.
Disconnect(c) ==
  /\ connection[c] = "live"
  /\ connection' = [connection EXCEPT ![c] = "closed"]
  /\ down' = [down EXCEPT ![c] = @ \o DisposeRoutedFrames(c, 1)]
  /\ routed' = [r \in RoutedCalls |->
         IF routed[r].conn = c /\ routed[r].st \in {"buffered", "sent"}
           THEN [routed[r] EXCEPT !.st = "cancelled"] ELSE routed[r]]
  /\ channelClients' = DeleteClient(channelClients, up[c][1].data)
  /\ UNCHANGED << channels, up, upRead, downRead, engineChannels, clientState,
                  serverSeen, clientSeen >>
  /\ UNCHANGED connectionVars

\* ------------------------------------------------------------ frame codec
\* Text is a sequence of characters, a buffer a sequence of bytes.  A JSON
\* value is a tagged record: a number, a string, null or an array of values.
BodyTypeUndefined == 0
BodyTypeString == 1
BodyTypeBuffer == 2
BodyTypeObject == 3

Num(n) == [k |-> "num", v |-> n]
Str(s) == [k |-> "str", v |-> s]
Arr(a) == [k |-> "arr", v |-> a]
Null == [k |-> "null", v |-> << >>]
SyntaxError == [k |-> "error", v |-> << >>]

Digits == << "0", "1", "2", "3", "4", "5", "6", "7", "8", "9" >>
IsDigit(c) == \E d \in 1 .. 10 : Digits[d] = c
DigitValue(c) == (CHOOSE d \in 1 .. 10 : Digits[d] = c) - 1

\* a character that takes two bytes in UTF-8, and what an invalid byte decodes to
Eacute == "U+00E9"
Replacement == "U+FFFD"

\* Buffer.from(text): the UTF-8 bytes of each character
Utf8Char(c) ==
  IF IsDigit(c) THEN << 48 + DigitValue(c) >>
  ELSE CASE c = "\"" -> << 34 >>
         [] c = "," -> << 44 >>
         [] c = "[" -> << 91 >>
         [] c = "\\" -> << 92 >>
         [] c = "]" -> << 93 >>
         [] c = "a" -> << 97 >>
         [] c = "l" -> << 108 >>
         [] c = "n" -> << 110 >>
         [] c = "u" -> << 117 >>
         [] c = Eacute -> << 195, 169 >>
         [] OTHER -> << 239, 191, 189 >>

RECURSIVE BufferFrom(_)
BufferFrom(text) ==
  IF text = << >> THEN << >> ELSE Utf8Char(Head(text)) \o BufferFrom(Tail(text))

\* buffer.toString(): UTF-8 decoding, an invalid sequence gives U+FFFD
AsciiChar(b) ==
  IF b >= 48 /\ b <= 57 THEN Digits[b - 47]
  ELSE CASE b = 34 -> "\""
         [] b = 44 -> ","
         [] b = 91 -> "["
         [] b = 92 -> "\\"
         [] b = 93 -> "]"
         [] b = 97 -> "a"
         [] b = 108 -> "l"
         [] b = 110 -> "n"
         [] b = 117 -> "u"
         [] OTHER -> Replacement

RECURSIVE BufferToString(_)
BufferToString(buf) ==
  IF buf = << >> THEN << >>
  ELSE IF Len(buf) >= 2 /\ buf[1] = 195 /\ buf[2] = 169
    THEN << Eacute >> \o BufferToString(SubSeq(buf, 3, Len(buf)))
    ELSE << AsciiChar(buf[1]) >> \o BufferToString(Tail(buf))

\* JSON.stringify
RECURSIVE DigitsOf(_)
DigitsOf(n) ==
  IF n < 10 THEN << Digits[n + 1] >>
  ELSE DigitsOf(n \div 10) \o << Digits[(n % 10) + 1] >>

\* a quoting that escapes nothing
Quote_Plain(str) == str

RECURSIVE Quote(_)
Quote(str) ==
  IF str = << >> THEN << >>
  ELSE (IF Head(str) \in {"\"", "\\"} THEN << "\\", Head(str) >> ELSE << Head(str) >>)
         \o Quote(Tail(str))

RECURSIVE JsonStringify(_)
RECURSIVE StringifyElements(_)
JsonStringify(j) ==
  CASE j.k = "num" -> DigitsOf(j.v)
    [] j.k = "str" -> << "\"" >> \o Quote(j.v) \o << "\"" >>
    [] j.k = "arr" -> << "[" >> \o StringifyElements(j.v) \o << "]" >>
    [] OTHER -> << "n", "u", "l", "l" >>
StringifyElements(a) ==
  IF a = << >> THEN << >>
  ELSE IF Len(a) = 1 THEN JsonStringify(a[1])
  ELSE JsonStringify(Head(a)) \o << "," >> \o StringifyElements(Tail(a))

\* JSON.parse: the value at position i of the text and the position behind
\* it; position 0 when there is no value there
Fail == [v |-> SyntaxError, i |-> 0]

RECURSIVE ParseNumber(_, _, _)
ParseNumber(t, i, n) ==
  IF i <= Len(t) /\ IsDigit(t[i]) THEN ParseNumber(t, i + 1, 10 * n + DigitValue(t[i]))
  ELSE [v |-> Num(n), i |-> i]

RECURSIVE ParseString(_, _, _)
ParseString(t, i, acc) ==
  IF i > Len(t) THEN Fail
  ELSE IF t[i] = "\"" THEN [v |-> Str(acc), i |-> i + 1]
  ELSE IF t[i] = "\\"
    THEN IF i + 1 > Len(t) THEN Fail ELSE ParseString(t, i + 2, Append(acc, t[i + 1]))
    ELSE ParseString(t, i + 1, Append(acc, t[i]))

RECURSIVE ParseValue(_, _)
RECURSIVE ParseElements(_, _, _)
ParseValue(t, i) ==
  IF i > Len(t) THEN Fail
  ELSE CASE t[i] = "[" ->
              IF i + 1 <= Len(t) /\ t[i + 1] = "]" THEN [v |-> Arr(<< >>), i |-> i + 2]
              ELSE ParseElements(t, i + 1, << >>)
         [] t[i] = "\"" -> ParseString(t, i + 1, << >>)
         [] IsDigit(t[i]) -> ParseNumber(t, i, 0)
         [] t[i] = "n" ->
              IF i + 3 <= Len(t) /\ SubSeq(t, i, i + 3) = << "n", "u", "l", "l" >>
                THEN [v |-> Null, i |-> i + 4]
                ELSE Fail
         [] OTHER -> Fail
ParseElements(t, i, acc) ==
  LET r == ParseValue(t, i) IN
  IF r.i = 0 \/ r.i > Len(t) THEN Fail
  ELSE IF t[r.i] = "," THEN ParseElements(t, r.i + 1, Append(acc, r.v))
  ELSE IF t[r.i] = "]" THEN [v |-> Arr(Append(acc, r.v)), i |-> r.i + 1]
  ELSE Fail

JsonParse(t) ==
  LET r == ParseValue(t, 1) IN IF r.i = Len(t) + 1 THEN r.v ELSE SyntaxError

\* the body classes: typeof undefined, typeof string, Buffer.isBuffer, the rest
Undefined == [k |-> "undefined", v |-> << >>]
StringBody(text) == [k |-> "string", v |-> text]
BufferBody(buf) == [k |-> "buffer", v |-> buf]
ObjectBody(j) == [k |-> "object", v |-> j]

SerializeBody(body) ==
  CASE body.k = "undefined" -> [buffer |-> << >>, type |-> BodyTypeUndefined]
    [] body.k = "string" -> [buffer |-> BufferFrom(body.v), type |-> BodyTypeString]
    [] body.k = "buffer" -> [buffer |-> body.v, type |-> BodyTypeBuffer]
    [] OTHER -> [buffer |-> BufferFrom(JsonStringify(body.v)), type |-> BodyTypeObject]

\* a header that carries the tag as its own last element
HeaderValue_Flat(header, bodyType) == Arr(Append(header, Num(bodyType)))

\* `[header, bodyType]`
HeaderValue(header, bodyType) == Arr(<< Arr(header), Num(bodyType) >>)

WriteUInt32BE(n) ==
  << (n \div 16777216) % 256, (n \div 65536) % 256, (n \div 256) % 256, n % 256 >>
ReadUInt32BE(buf) ==
  buf[1] * 16777216 + buf[2] * 65536 + buf[3] * 256 + buf[4]

Serialize(header, body) ==
  LET b == SerializeBody(body)
      headerBuffer == BufferFrom(JsonStringify(HeaderValue(header, b.type)))
  IN  WriteUInt32BE(Len(headerBuffer)) \o headerBuffer \o b.buffer

DeserializeBody(bodyBuffer, bodyType) ==
  CASE bodyType = Num(BodyTypeString) -> StringBody(BufferToString(bodyBuffer))
    [] bodyType = Num(BodyTypeBuffer) -> BufferBody(bodyBuffer)
    [] bodyType = Num(BodyTypeObject) -> ObjectBody(JsonParse(BufferToString(bodyBuffer)))
    [] OTHER -> Undefined

\* deserialize: JSON.parse throws on text that is no JSON, and destructuring
\* throws on a value that is no array; an array too short leaves undefined
\* where an element is missing
Thrown == [header |-> SyntaxError, body |-> Undefined]
Deserialize(buffer) ==
  LET headerSize == ReadUInt32BE(buffer)
      headerBuffer == SubSeq(buffer, 5, 4 + headerSize)
      bodyBuffer == SubSeq(buffer, 5 + headerSize, Len(buffer))
      parsed == JsonParse(BufferToString(headerBuffer))
  IN  IF parsed.k # "arr" THEN Thrown
      ELSE [header |-> IF Len(parsed.v) >= 1 THEN parsed.v[1] ELSE Undefined,
            body |-> DeserializeBody(bodyBuffer,
                                     IF Len(parsed.v) >= 2 THEN parsed.v[2] ELSE Undefined)]

\* the headers sendRequest and sendResponse write, and short arrays of any kind
ChannelNames == { << "a" >>, << "a", "\"" >> }
RequestHeaders ==
  { << Num(t), Num(id), Str(c), Str(n) >> :
      t \in {Promise, EventListen}, id \in Ids, c \in ChannelNames, n \in ChannelNames }
    \cup { << Num(t), Num(id) >> : t \in {PromiseCancel, EventDispose}, id \in Ids }
ResponseHeaders ==
  { << Num(Initialize) >> }
    \cup { << Num(t), Num(id) >> : t \in ResponseTypes \ {Initialize}, id \in Ids }
HeaderElements == { Num(EventFire), Str(<< "\\", Eacute >>), Null, Arr(<< >>) }
Headers ==
  RequestHeaders \cup ResponseHeaders
    \cup UNION { [1 .. n -> HeaderElements] : n \in 0 .. MaxHeaderLen }

\* bodies of each class
Texts == UNION { [1 .. n -> {"a", "\"", Eacute}] : n \in 0 .. MaxBodyLen }
Buffers == UNION { [1 .. n -> {0, 34, 255}] : n \in 0 .. MaxBodyLen }
Elements == { Num(7), Str(<< "]" >>), Arr(<< Null >>) }
Objects ==
  { Num(0), Num(PromiseError), Null }
    \cup { Arr(a) : a \in UNION { [1 .. n -> Elements] : n \in 0 .. MaxBodyLen } }
Bodies ==
  { Undefined } \cup { StringBody(t) : t \in Texts } \cup { BufferBody(b) : b \in Buffers }
    \cup { ObjectBody(j) : j \in Objects }

\* serialize(header, body), the buffer goes to protocol.send
SerializeFrame(header, body) ==
  /\ codec.op = "none"
  /\ codec' = [op |-> "sent", header |-> header, body |-> body,
               buffer |-> Serialize(header, body)]
  /\ UNCHANGED << engineVars, ipcVars, cp, delayed >>

\* onRawMessage's first line: deserialize(message)
DeserializeFrame ==
  /\ codec.op = "sent"
  /\ codec' = [op |-> "received", header |-> codec.header, body |-> codec.body,
               buffer |-> codec.buffer, out |-> Deserialize(codec.buffer)]
  /\ UNCHANGED << engineVars, ipcVars, cp, delayed >>

\* ---------------------------------------------------- errors over the wire
\* An Error a command rejects with: message and name are strings, stack is
\* undefined, a text of lines separated by newlines or, for an object made to
\* look like an Error, whatever was stored there (here: a list of lines).
Newline == "U+000A"
StackLines(lines) == [k |-> "array", v |-> lines]

RECURSIVE SplitFrom(_, _, _)
SplitFrom(text, line, acc) ==
  IF text = << >> THEN Append(acc, line)
  ELSE IF Head(text) = Newline THEN SplitFrom(Tail(text), << >>, Append(acc, line))
  ELSE SplitFrom(Tail(text), Append(line, Head(text)), acc)

\* stack.split('\n')
Split(text) == SplitFrom(text, << >>, << >>)

\* onPromise's rejection branch for `data instanceof Error`: the data of the
\* PromiseError response.  An empty stack is falsy and becomes undefined; a
\* string has split and is sent as its lines; anything else is sent as it is.
PromiseErrorData(error) ==
  [message |-> error.message,
   name |-> error.name,
   stack |-> IF error.stack = Undefined \/ error.stack = StringBody(<< >>) THEN Undefined
             ELSE IF error.stack.k = "string" THEN StackLines(Split(error.stack.v))
             ELSE error.stack]

\* doRequest's handler for PromiseError: new Error(message), then stack and
\* name are assigned from the response data as they came
MaterializeError(data) ==
  [message |-> data.message, name |-> data.name, stack |-> data.stack]

Stacks ==
  { Undefined, StackLines(<< << "a" >>, << "a" >> >>) }
    \cup { StringBody(t) : t \in UNION { [1 .. n -> {"a", Newline}] : n \in 0 .. MaxStackLen } }
Errors ==
  [message : {"nice error", "Canceled", ""}, name : {"Error", "TypeError"}, stack : Stacks]

\* a command's promise rejects with an Error; the server answers PromiseError
RejectWithError(error) ==
  /\ codec.op = "none"
  /\ codec' = [op |-> "rejected", error |-> error, data |-> PromiseErrorData(error)]
  /\ UNCHANGED << engineVars, ipcVars, cp, delayed >>

\* the caller's handler gets the PromiseError and rejects the caller's future
ReceiveError ==
  /\ codec.op = "rejected"
  /\ codec' = [op |-> "materialized", error |-> codec.error, data |-> codec.data,
               out |-> MaterializeError(codec.data)]
  /\ UNCHANGED << engineVars, ipcVars, cp, delayed >>

\* ---------------------------------------------------- child-process Client
\* cp.disposeDelayer: "idle" | "armed" (the timer runs); cp.disposed: dispose()
\* ran, disposeDelayer and activeRequests are null; cp.activeRequests: the
\* requests whose disposable is in this.activeRequests, in order; cp.child: the
\* child behind this.child and this._client, NoChild for null; cp.childSt:
\* child -> "none" | "running" | "killed" (SIGTERM sent) | "exited";
\* cp.killedBy: what last set this._client to null; cp.requests: r -> kind
\* ("call" | "event"), state, the child it was issued to and what had ended the
\* child before when it had to fork one.
NextCpRequest ==
  IF \E r \in CpRequests : cp.requests[r].kind = "none"
    THEN CHOOSE r \in CpRequests :
           /\ cp.requests[r].kind = "none"
           /\ \A q \in CpRequests : q < r => cp.requests[q].kind # "none"
    ELSE NoChild

\* the `client` getter: fork a child and build an IPCClient on it unless one is there
ClientGetter(c) ==
  IF c.child # NoChild THEN c
  ELSE [c EXCEPT !.forks = @ + 1,
                 !.child = c.forks + 1,
                 !.childSt[c.forks + 1] = "running"]

CanFork == cp.child # NoChild \/ cp.forks < MaxChildren

\* disposeClient(): kill the child, forget it and its channels
DisposeClient(c, why) ==
  IF c.child = NoChild THEN c
  ELSE [c EXCEPT !.childSt[c.child] = IF @ = "running" THEN "killed" ELSE @,
                 !.child = NoChild,
                 !.killedBy = why]

\* array.splice(array.indexOf(r), 1): index -1 removes the last element
SpliceOut(arr, r) ==
  IF \E i \in 1 .. Len(arr) : arr[i] = r THEN Remove(arr, r)
  ELSE IF arr = << >> THEN << >> ELSE SubSeq(arr, 1, Len(arr) - 1)

\* `disposeDelayer.trigger(() => this.disposeClient())` when the array is empty
TriggerWhenEmpty(arr, delayer) == IF arr = << >> THEN "armed" ELSE delayer

\* requestPromise
CpRequestPromise ==
  LET r == NextCpRequest IN
  /\ r # NoChild
  /\ IF cp.disposed
       THEN cp' = [cp EXCEPT !.requests[r] =
                     [kind |-> "call", st |-> "rejected", child |-> NoChild, after |-> "dispose"]]
       ELSE /\ CanFork
            /\ LET c == ClientGetter([cp EXCEPT !.disposeDelayer = "idle"]) IN
               cp' = [c EXCEPT !.requests[r] =
                         [kind |-> "call", st |-> "pending", child |-> c.child,
                          after |-> IF cp.child = NoChild THEN cp.killedBy ELSE "running"],
                       !.activeRequests = Append(@, r)]
  /\ UNCHANGED << engineVars, ipcVars, codec, delayed >>

\* the child answers a call: `request.then(c, e).done(...)` settles the result,
\* splices the disposable and arms the timer when nothing is active
CpSettle(r) ==
  /\ cp.requests[r].kind = "call"
  /\ cp.requests[r].st = "pending"
  /\ cp.childSt[cp.requests[r].child] \in {"running", "killed"}
  /\ LET arr == SpliceOut(cp.activeRequests, r) IN
     cp' = IF cp.disposed
             THEN [cp EXCEPT !.requests[r].st = "resolved"]
             ELSE [cp EXCEPT !.requests[r].st = "resolved",
                             !.activeRequests = arr,
                             !.disposeDelayer = TriggerWhenEmpty(arr, @)]
  /\ UNCHANGED << engineVars, ipcVars, codec, delayed >>

\* requestEvent: the emitter is made, nothing is forked before a listener comes
CpRequestEvent ==
  LET r == NextCpRequest IN
  /\ r # NoChild
  /\ cp' = IF cp.disposed
             THEN [cp EXCEPT !.requests[r] =
                     [kind |-> "event", st |-> "none", child |-> NoChild, after |-> "dispose"]]
             ELSE [cp EXCEPT !.disposeDelayer = "idle",
                             !.requests[r] =
                     [kind |-> "event", st |-> "emitter", child |-> NoChild, after |-> "none"]]
  /\ UNCHANGED << engineVars, ipcVars, codec, delayed >>

\* onFirstListenerAdd
CpSubscribe(r) ==
  /\ ~cp.disposed
  /\ cp.requests[r].kind = "event"
  /\ cp.requests[r].st = "emitter"
  /\ CanFork
  /\ LET c == ClientGetter(cp) IN
     cp' = [c EXCEPT !.requests[r] =
               [kind |-> "event", st |-> "listening", child |-> c.child,
                after |-> IF cp.child = NoChild THEN cp.killedBy ELSE "running"],
             !.activeRequests = Append(@, r)]
  /\ UNCHANGED << engineVars, ipcVars, codec, delayed >>

\* onLastListenerRemove
CpUnsubscribe(r) ==
  /\ cp.requests[r].kind = "event"
  /\ cp.requests[r].st \in {"listening", "disposed"}
  /\ LET arr == SpliceOut(cp.activeRequests, r) IN
     cp' = IF cp.disposed
             THEN [cp EXCEPT !.requests[r].st = "unsubscribed"]
             ELSE [cp EXCEPT !.requests[r].st = "unsubscribed",
                             !.activeRequests = arr,
                             !.disposeDelayer = TriggerWhenEmpty(arr, @)]
  /\ UNCHANGED << engineVars, ipcVars, codec, delayed >>

\* the delayer's timer fires: disposeClient()
CpTimeout ==
  /\ ~cp.disposed
  /\ cp.disposeDelayer = "armed"
  /\ cp' = DisposeClient([cp EXCEPT !.disposeDelayer = "idle"], "timeout")
  /\ UNCHANGED << engineVars, ipcVars, codec, delayed >>

\* dispose(array) is array.forEach(d => d.dispose()).  Disposing a call cancels
\* its result, whose done() splices the array being walked: the element behind
\* moves into the slot just visited and is passed over.  Disposing a
\* subscription's listener splices nothing.
RECURSIVE ForEachDispose(_, _, _)
ForEachDispose(c, arr, i) ==
  IF i > Len(arr) THEN c
  ELSE LET r == arr[i] IN
       IF c.requests[r].kind = "call"
         THEN LET rest == SpliceOut(arr, r) IN
              ForEachDispose([c EXCEPT !.requests[r].st = "canceled",
                                       !.disposeDelayer = TriggerWhenEmpty(rest, @)],
                             rest, i + 1)
         ELSE ForEachDispose([c EXCEPT !.requests[r].st = "disposed"], arr, i + 1)

\* the exit handler's `this.activeRequests = dispose(this.activeRequests)`
ExitDispose(c, child) ==
  IF c.disposed THEN c
  ELSE [ForEachDispose(c, c.activeRequests, 1) EXCEPT !.activeRequests = << >>]

\* child.on('exit'): a killed child exits with signal SIGTERM, a running one
\* with the code it chooses; after a crash the delayer is cancelled (a
\* TypeError once dispose() made it null) and disposeClient runs
CpChildExit(child, code) ==
  /\ cp.childSt[child] \in {"running", "killed"}
  /\ cp.childSt[child] = "killed" => code = 0
  /\ LET c == ExitDispose([cp EXCEPT !.childSt[child] = "exited"], child) IN
     cp' = IF cp.childSt[child] = "running" /\ code # 0 /\ ~c.disposed
             THEN DisposeClient([c EXCEPT !.disposeDelayer = "idle"], "crash")
             ELSE c
  /\ UNCHANGED << engineVars, ipcVars, codec, delayed >>

\* dispose()
CpDispose ==
  /\ ~cp.disposed
  /\ cp' = DisposeClient([cp EXCEPT !.disposed = TRUE, !.disposeDelayer = "idle",
                                   !.activeRequests = << >>], "dispose")
  /\ UNCHANGED << engineVars, ipcVars, codec, delayed >>

\* ------------------------------------------------- frames written by hand
\* The protocol is a plain message pipe: whoever holds the other end can write
\* any buffer on it.  A peer that writes its request frames itself allocates
\* ids as an engine does (0, 1, ..) but may cancel or dispose any id at any
\* time, and any number of times.
PeerFrames ==
  { Request(Promise, id, TestChannelId, name) : id \in Ids, name \in {"marco", "neverComplete"} }
    \cup { Request(EventListen, id, TestChannelId, "pong") : id \in Ids }
    \cup { IdRequest(t, id) : t \in {PromiseCancel, EventDispose}, id \in Ids }

NumRequests(log) ==
  Cardinality({ i \in 1 .. Len(log) : log[i].type \in {Promise, EventListen} })

PeerWrite(f) ==
  /\ Len(wire) <= MaxRaw
  /\ f.type \in {Promise, EventListen} => f.id = NumRequests(wire)
  /\ wire' = Append(wire, f)
  /\ UNCHANGED << serverRead, sent, clientRead, server, srvActive, command, pong, fires >>
  /\ UNCHANGED clientVars

\* A frame with a type tag outside the enum, and a buffer deserialize() throws on
Undecodable == Frame(Malformed, NoId, "", "", "")
JunkRequests ==
  { Request(UnknownRequest, id, TestChannelId, "marco") : id \in Ids } \cup { Undecodable }
JunkResponses ==
  { Response(UnknownResponse, id, "junk") : id \in Ids } \cup { Undecodable }

NumJunk ==
  Cardinality({ i \in 1 .. Len(wire) : wire[i].type \in {UnknownRequest, Malformed} })
    + Cardinality({ i \in 1 .. Len(sent) : sent[i].type \in {UnknownResponse, Malformed} })

JunkRequest(f) ==
  /\ NumJunk < MaxJunk
  /\ wire' = Append(wire, f)
  /\ UNCHANGED << serverRead, sent, clientRead, server, srvActive, command, pong, fires >>
  /\ UNCHANGED clientVars

JunkResponse(f) ==
  /\ NumJunk < MaxJunk
  /\ sent' = Append(sent, f)
  /\ UNCHANGED << serverRead, wire, clientRead, server, srvActive, command, pong, fires >>
  /\ UNCHANGED clientVars

\* The transport of a peer carries the frames for both of its engines, and
\* each engine's onRawMessage is subscribed to it: the ChannelClient is handed
\* the requests addressed to the ChannelServer beside it, the ChannelServer the
\* responses addressed to the ChannelClient beside it.  A response may also
\* name an id the client holds no handler for.
RequestsToClient ==
  { Request(t, 0, TestChannelId, "marco") : t \in {Promise, EventListen} }
    \cup { IdRequest(t, 0) : t \in {PromiseCancel, EventDispose} }
StrayResponses == { Response(PromiseSuccess, 0, "stray") }
ResponsesToServer ==
  { Response(t, 0, "stray") : t \in ResponseTypes \ {Initialize} }
    \cup { Response(Initialize, NoId, "") }

NumCross ==
  Cardinality({ i \in 1 .. Len(wire) : wire[i].type \in ResponseTypes })
    + Cardinality({ i \in 1 .. Len(sent) :
                      sent[i].type \in RequestTypes \/ sent[i].data = "stray" })

\* (a frame is put on a pipe when the frames before it have been taken off)
ToClient(f) ==
  /\ NumCross < MaxCross
  /\ clientRead = Len(sent) /\ serverRead = Len(wire)
  /\ sent' = Append(sent, f)
  /\ UNCHANGED << serverRead, wire, clientRead, server, srvActive, command, pong, fires >>
  /\ UNCHANGED clientVars

ToServer(f) ==
  /\ NumCross < MaxCross
  /\ clientRead = Len(sent) /\ serverRead = Len(wire)
  /\ wire' = Append(wire, f)
  /\ UNCHANGED << serverRead, sent, clientRead, server, srvActive, command, pong, fires >>
  /\ UNCHANGED clientVars

\* ---------------------------------------------------------- specification
\* Every operation of the connection
Next ==
  \/ \E name \in Commands : Call(name)
  \/ \E id \in Ids : Cancel(id)
  \/ Listen
  \/ \E id \in Ids : Subscribe(id)
  \/ \E id \in Ids : Unsubscribe(id)
  \/ ClientReceive
  \/ ClientDispose
  \/ ServerFirstMessage
  \/ ServerReceive
  \/ \E id \in Ids, p \in Settlements : CommandSettle(id, p)
  \/ Ping
  \/ ServerDispose

Spec == Init /\ [][Next]_vars

\* The connection used for calls only
NextCall ==
  \/ \E name \in Commands : Call(name)
  \/ \E id \in Ids : Cancel(id)
  \/ ClientReceive
  \/ ClientDispose
  \/ ServerFirstMessage
  \/ ServerReceive
  \/ \E id \in Ids, p \in Settlements : CommandSettle(id, p)
  \/ ServerDispose

SpecCall == Init /\ [][NextCall]_vars

\* The connection used for event subscriptions only
NextEvent ==
  \/ Listen
  \/ \E id \in Ids : Subscribe(id)
  \/ \E id \in Ids : Unsubscribe(id)
  \/ ClientReceive
  \/ ClientDispose
  \/ ServerFirstMessage
  \/ ServerReceive
  \/ Ping
  \/ ServerDispose

SpecEvent == Init /\ [][NextEvent]_vars

\* Calls made with and without a cancellation token
NextToken ==
  \/ \E name \in Commands : Call(name)
  \/ \E tok \in {"live", "cancelled"} : CallCT(tok)
  \/ \E id \in Ids : CancelToken(id)
  \/ \E id \in Ids : Cancel(id)
  \/ ClientReceive
  \/ ServerFirstMessage
  \/ ServerReceive
  \/ \E id \in Ids, p \in Settlements : CommandSettle(id, p)

SpecToken == Init /\ [][NextToken]_vars

\* Every operation of the client engine; the server side only completes the
\* handshake and answers what it is sent
NextClient ==
  \/ \E name \in Commands : Call(name)
  \/ \E id \in Ids : Cancel(id)
  \/ Listen
  \/ \E id \in Ids : Subscribe(id)
  \/ \E id \in Ids : Unsubscribe(id)
  \/ ClientReceive
  \/ ClientDispose
  \/ ServerFirstMessage
  \/ ServerReceive

SpecClient == Init /\ [][NextClient]_vars

\* Every operation of the server engine; the peer only issues requests
NextServer ==
  \/ \E name \in Commands : Call(name)
  \/ Listen
  \/ \E id \in Ids : Subscribe(id)
  \/ ClientReceive
  \/ ServerFirstMessage
  \/ ServerReceive
  \/ \E id \in Ids, p \in Settlements : CommandSettle(id, p)
  \/ Ping
  \/ ServerDispose

SpecServer == Init /\ [][NextServer]_vars

\* The transport delivers every frame and each engine handles what it is
\* delivered (single-threaded event loop): weak fairness on the receive steps.
\* Requests for registered and unregistered channels, known and unknown commands
CallNames == {TestChannelId, ExtensionsChannelId, "nochannel"}
CallCommands == {"marco", "getInstalled", "bogus"}

NextDispatch ==
  \/ \E channelName \in CallNames, name \in CallCommands : CallOn(channelName, name)
  \/ ClientReceive
  \/ ServerFirstMessage
  \/ ServerReceive
  \/ \E id \in Ids, p \in Settlements : CommandSettle(id, p)

SpecDispatch == Init /\ [][NextDispatch]_vars

\* Subscriptions while the server engine stays up
NextSubscribe ==
  \/ Listen
  \/ \E id \in Ids : Subscribe(id)
  \/ \E id \in Ids : Unsubscribe(id)
  \/ ClientReceive
  \/ ClientDispose
  \/ ServerFirstMessage
  \/ ServerReceive
  \/ Ping

SpecSubscribe == Init /\ [][NextSubscribe]_vars

\* The subscription side of the client engine; the server side only completes
\* the handshake and reads what it is sent
NextListen ==
  \/ Listen
  \/ \E id \in Ids : Subscribe(id)
  \/ \E id \in Ids : Unsubscribe(id)
  \/ ClientReceive
  \/ ClientDispose
  \/ ServerFirstMessage
  \/ ServerReceive

SpecListen == Init /\ [][NextListen]_vars

\* Calls and subscriptions issued and cancelled on a client engine in use
NextOutstanding ==
  \/ \E name \in Commands : Call(name)
  \/ \E id \in Ids : Cancel(id)
  \/ Listen
  \/ \E id \in Ids : Subscribe(id)
  \/ \E id \in Ids : Unsubscribe(id)
  \/ ClientReceive
  \/ ServerFirstMessage
  \/ ServerReceive

SpecOutstanding == Init /\ [][NextOutstanding]_vars

\* The IPCServer routing calls to the peers of its connections
NextRoute ==
  \/ \E c \in Connections, id \in PeerIds : CreateConnection(c, id)
  \/ \E c \in Connections : ServerRead(c)
  \/ \E c \in Connections : PeerRead(c)
  \/ \E target \in PeerIds : RoutedCall(target)
  \/ \E r \in RoutedCalls : CancelRouted(r)
  \/ \E c \in Connections : Disconnect(c)

SpecRoute == Init /\ [][NextRoute]_vars

\* The IPCServer serving the calls of its peers
NextServe ==
  \/ \E c \in Connections, id \in PeerIds : CreateConnection(c, id)
  \/ \E channelName \in RegisteredChannels : RegisterChannel(channelName)
  \/ \E c \in Connections : ServerRead(c)
  \/ \E c \in Connections : PeerRead(c)
  \/ \E c \in Connections, channelName \in RegisteredChannels : PeerRequest(c, channelName)

SpecServe == Init /\ [][NextServe]_vars

\* The server engine fed by a peer that writes its frames itself
NextPeer ==
  \/ \E f \in PeerFrames : PeerWrite(f)
  \/ ServerFirstMessage
  \/ ServerReceive
  \/ \E id \in Ids, p \in Settlements : CommandSettle(id, p)
  \/ Ping

SpecPeer == Init /\ [][NextPeer]_vars

\* Both engines at work while frames that are no frames arrive at each
NextJunk ==
  \/ Call("marco")
  \/ \E f \in JunkRequests : JunkRequest(f)
  \/ \E f \in JunkResponses : JunkResponse(f)
  \/ ClientReceive
  \/ ServerFirstMessage
  \/ ServerReceive

SpecJunk == Init /\ [][NextJunk]_vars

\* Both engines at work while each is handed the other's frames
NextCross ==
  \/ Call("marco")
  \/ \E f \in RequestsToClient \cup StrayResponses : ToClient(f)
  \/ \E f \in ResponsesToServer : ToServer(f)
  \/ ClientReceive
  \/ ServerFirstMessage
  \/ ServerReceive

SpecCross == Init /\ [][NextCross]_vars

\* Buffers written by serialize and read back by deserialize
NextCodec ==
  \/ \E header \in Headers, body \in Bodies : SerializeFrame(header, body)
  \/ DeserializeFrame
  \/ \E error \in Errors : RejectWithError(error)
  \/ ReceiveError

SpecCodec == Init /\ [][NextCodec]_vars

\* The child-process Client in use: calls, subscriptions, idle timeouts and
\* children that exit
NextCp ==
  \/ CpRequestPromise
  \/ \E r \in CpRequests : CpSettle(r)
  \/ CpRequestEvent
  \/ \E r \in CpRequests : CpSubscribe(r)
  \/ \E r \in CpRequests : CpUnsubscribe(r)
  \/ CpTimeout
  \/ \E child \in Children, code \in {0, 1} : CpChildExit(child, code)
  \/ CpDispose

SpecCp == Init /\ [][NextCp]_vars

\* ------------------------------------------------------- getDelayedChannel
\* The n-th operation made on the delayed channel: a call or a listen, whether
\* it was made while P was pending, and how far it got.
DelayedOps == 1 .. Len(delayed.ops)

\* `promise.then(...)` continuations of a pending P, in registration order
RECURSIVE Continuations(_, _)
Continuations(ops, n) ==
  IF n > Len(ops) THEN << >>
  ELSE (IF ops[n].st = "queued" THEN << n >> ELSE << >>) \o Continuations(ops, n + 1)

\* a delayed channel that hands every operation to the inner channel at once
DelayedOp_Direct(op) ==
  /\ Len(delayed.ops) < MaxDelayed
  /\ delayed' = [delayed EXCEPT
       !.ops = Append(@, [kind |-> op, early |-> delayed.P = "pending", st |-> "dispatched"]),
       !.inner = Append(@, Len(delayed.ops) + 1)]
  /\ UNCHANGED << engineVars, ipcVars, codec, cp >>

\* call and listen of the delayed channel: `promise.then(c => c.call(...))`,
\* `promise.then(c => relay.input = c.listen(...))`.  On a pending P the
\* continuation is queued; on a resolved P it runs inside `then`; on a failed
\* P it never runs (the call's future fails, the relay stays without input).
DelayedOp(op) ==
  /\ Len(delayed.ops) < MaxDelayed
  /\ LET n == Len(delayed.ops) + 1
         st == CASE delayed.P = "pending" -> "queued"
                 [] delayed.P = "resolved" -> "dispatched"
                 [] OTHER -> "rejected"
     IN delayed' = [delayed EXCEPT
          !.ops = Append(@, [kind |-> op, early |-> delayed.P = "pending", st |-> st]),
          !.inner = IF st = "dispatched" THEN Append(@, n) ELSE @]
  /\ UNCHANGED << engineVars, ipcVars, codec, cp >>

\* P yields the channel: the queued continuations run in registration order
DelayedResolve ==
  /\ delayed.P = "pending"
  /\ delayed' = [delayed EXCEPT
       !.P = "resolved",
       !.ops = [n \in DelayedOps |-> IF delayed.ops[n].st = "queued" THEN [delayed.ops[n] EXCEPT !.st = "dispatched"]
                                   ELSE delayed.ops[n]],
       !.inner = @ \o Continuations(delayed.ops, 1)]
  /\ UNCHANGED << engineVars, ipcVars, codec, cp >>

\* P fails: no continuation runs, every queued call fails with P's error
DelayedReject ==
  /\ delayed.P = "pending"
  /\ delayed' = [delayed EXCEPT
       !.P = "rejected",
       !.ops = [n \in DelayedOps |-> IF delayed.ops[n].st = "queued" THEN [delayed.ops[n] EXCEPT !.st = "rejected"]
                                   ELSE delayed.ops[n]]]
  /\ UNCHANGED << engineVars, ipcVars, codec, cp >>

\* The caller cancels the future of the n-th operation, a call.  The future is
\* the promise `promise.then` returned: while the call is queued its cancel
\* cancels P, the promise it was created from, so P fails with 'Canceled' and
\* with it every other queued operation; once dispatched the cancel reaches
\* the inner call.
DelayedCancel(n) ==
  /\ n \in DelayedOps
  /\ delayed.ops[n].kind = "call"
  /\ delayed.ops[n].st \in {"queued", "dispatched"}
  /\ delayed' =
       IF delayed.ops[n].st = "dispatched"
         THEN [delayed EXCEPT !.ops[n].st = "canceledInner"]
         ELSE [delayed EXCEPT
                 !.P = "rejected",
                 !.ops = [m \in DelayedOps |->
                            IF m = n THEN [delayed.ops[m] EXCEPT !.st = "canceled"]
                            ELSE IF delayed.ops[m].st = "queued" THEN [delayed.ops[m] EXCEPT !.st = "rejected"]
                            ELSE delayed.ops[m]]]
  /\ UNCHANGED << engineVars, ipcVars, codec, cp >>

\* A delayed channel in use while its future is pending and after
NextDelayed ==
  \/ \E op \in {"call", "listen"} : DelayedOp(op)
  \/ DelayedResolve
  \/ DelayedReject
  \/ \E n \in 1 .. MaxDelayed : DelayedCancel(n)

SpecDelayed == Init /\ [][NextDelayed]_vars

FairSpecCall ==
  /\ SpecCall
  /\ WF_vars(ServerFirstMessage)
  /\ WF_vars(ServerReceive)
  /\ WF_vars(ClientReceive)


\* ------------------------------------------------------------------ properties
NumFrames(log, type, id) ==
  Len(SelectSeq(log, LAMBDA f : f.type = type /\ f.id = id))

TypesOf(log) == { log[i].type : i \in 1 .. Len(log) }

RECURSIVE IdsOf(_, _)
IdsOf(log, type) ==
  IF log = << >> THEN << >>
  ELSE (IF Head(log).type = type THEN << Head(log).id >> ELSE << >>) \o IdsOf(Tail(log), type)

RECURSIVE Ascending(_, _)
Ascending(S, from) ==
  IF from >= MaxRequests THEN << >>
  ELSE (IF from \in S THEN << from >> ELSE << >>) \o Ascending(S, from + 1)

NumTerminal(log, id) ==
  Len(SelectSeq(log, LAMBDA f : IsTerminal(f.type) /\ f.id = id))

CallIds == { id \in Ids : kind[id] = "call" }
EventIds == { id \in Ids : kind[id] = "event" }
CommandSettled(id) == command[id].st \in {"resolved", "rejected", "rejectedObj"}

\* C1: a call that nobody cancelled (neither the caller nor dispose) settles
\* at most once and only with the outcome of its server-side command; once the
\* connection is Idle and the server has read every frame, the command has
\* run; and once the command has settled and the client has read every
\* frame, the future is not pending any more.
C1_DispatchCorrectness ==
  \A id \in CallIds \ cancelled :
    /\ settleCalls[id] <= 1
    /\ future[id].st # "pending" => (future[id] = command[id] /\ settleCalls[id] = 1)
    /\ (state = Idle /\ server = "live" /\ serverRead = Len(wire)) => command[id].st # "none"
    /\ (CommandSettled(id) /\ ~clientDisposed /\ clientRead = Len(sent))
         => future[id].st # "pending"

\* a buffered call was flushed, its command settled later by rejecting with
\* a plain value, and the caller's future was rejected with that value
C1_Witness ==
  \E id \in CallIds \ cancelled :
    viaBuffer[id] /\ future[id] = [st |-> "rejectedObj", value |-> "obj"]

\* C2: the server sends exactly one Initialize frame, as the first frame of
\* the connection, so before every response and every EventFire.
C2_InitializeFirst ==
  /\ server = "none" => sent = << >>
  /\ server # "none" => (Len(sent) >= 1 /\ sent[1].type = Initialize)
  /\ \A i \in 2 .. Len(sent) : sent[i].type # Initialize

\* the server has sent an EventFire and a terminal response after Initialize
C2_Witness ==
  /\ EventFire \in TypesOf(sent)
  /\ TypesOf(sent) \cap {PromiseSuccess, PromiseError, PromiseErrorObj} # {}

\* C3: while the client is Uninitialized no request frame has been handed to
\* the transport (the state never returns to Uninitialized).
C3_NoRequestWhileUninitialized ==
  state = Uninitialized =>
    TypesOf(wire) \cap {Promise, PromiseCancel, EventListen, EventDispose} = {}

\* still Uninitialized after one call was cancelled, with another call
\* waiting in the buffer
C3_Witness ==
  /\ state = Uninitialized
  /\ cancelled # {}
  /\ bufferedRequests # << >>

\* C4: in the step that observes Initialize, the Promise frames put on the
\* wire are exactly those of the calls issued so far and not cancelled, one
\* each, in the order the calls were issued (ids are allocated in issue order).
C4_BufferedOrder ==
  [][(state = Uninitialized /\ state' = Idle) =>
       IdsOf(wire', Promise) = Ascending({id \in CallIds : future[id].st = "pending"}, 0)]_vars

\* Initialize was observed with two calls buffered
C4_Witness ==
  /\ state = Idle
  /\ Cardinality({id \in CallIds : viaBuffer[id] /\ NumFrames(wire, Promise, id) = 1}) >= 2

\* C5: a cancelled call is rejected with 'Canceled'; PromiseCancel(id) is on
\* the wire exactly when Promise(id) is, and after it; a call that was not
\* cancelled has no PromiseCancel.  (A call cancelled while buffered thus
\* never has either frame sent: both counts stay 0.)
C5_CancelFrames ==
  \A id \in CallIds :
    /\ NumFrames(wire, Promise, id) <= 1
    /\ id \in cancelled =>
         /\ future[id] = Canceled
         /\ NumFrames(wire, PromiseCancel, id) = NumFrames(wire, Promise, id)
         /\ id \notin SeqToSet(bufferedRequests)
    /\ id \notin cancelled => NumFrames(wire, PromiseCancel, id) = 0
    /\ \A i, j \in 1 .. Len(wire) :
         (wire[i].type = Promise /\ wire[i].id = id /\
          wire[j].type = PromiseCancel /\ wire[j].id = id) => i < j

\* the caller cancelled one call while buffered and one after it was sent,
\* and Initialize has been observed
C5_Witness ==
  /\ state = Idle
  /\ ~clientDisposed
  /\ \E a, b \in cancelled :
       /\ NumFrames(wire, Promise, a) = 0
       /\ NumFrames(wire, PromiseCancel, b) = 1

\* C6 (does not hold of the code): after the client cancels call id k, handlers has no entry
\* for k, so a later response for k runs no handler (the future's only
\* settle call is the cancel).
C6_CancelDeletesHandler ==
  \A id \in CallIds \cap cancelled : id \notin handlers /\ settleCalls[id] = 1

\* PromiseCancel(id) has been received by the server
CancelReceived(id) ==
  \E i \in 1 .. serverRead : wire[i].type = PromiseCancel /\ wire[i].id = id

\* C7 (does not hold of the code): once the server has received PromiseCancel(id) for a command
\* that was still in flight (and so was cancelled by it), it has sent no
\* PromiseSuccess, PromiseError or PromiseErrorObj for that id.
C7_NoResponseAfterCancel ==
  \A id \in Ids :
    (CancelReceived(id) /\ command[id] = Canceled) => NumTerminal(sent, id) = 0

\* onPromise calls channel.call(request.name, request.arg): the command gets
\* no cancellation token from the server engine.
ServerToken(id) == "none"

\* C8 (does not hold of the code): every command the server runs got a token of the engine,
\* and a call whose token is cancelled (before or after the call was issued)
\* is rejected at the caller with 'Canceled'.
C8_TokensHonored ==
  \A id \in CallIds :
    /\ command[id].st # "none" => ServerToken(id) # "none"
    /\ token[id] = "cancelled" => future[id] = Canceled

\* the client reads an EventFire frame for subscription id in this step
ReadsFire(id) ==
  /\ clientRead' = clientRead + 1
  /\ sent[clientRead + 1].type = EventFire
  /\ sent[clientRead + 1].id = id

\* C9: the stream of a subscription grows only when the client reads an
\* EventFire frame with the subscription's id while it has a subscriber, and
\* then by that frame's data; frames with other ids leave it alone, and it is
\* empty as long as the server-side event has not fired.
C9_EventStream ==
  [][\A id \in EventIds :
       /\ IF ReadsFire(id) /\ listeners[id] > 0
            THEN delivered'[id] = Append(delivered[id], sent[clientRead + 1].data)
            ELSE delivered'[id] = delivered[id]
       /\ fires' = 0 => delivered'[id] = << >>]_vars

\* two subscriptions, the second started between the two emissions
C9_Witness ==
  \E a, b \in EventIds : delivered[a] = << "1", "2" >> /\ delivered[b] = << "2" >>

\* the subscription of event id is started: its EventListen is on the wire
\* and its EventDispose is not yet
Live(id) == listeners[id] > 0 /\ ~IsWaiting(id)

\* C10: removing the last subscriber of a started subscription sends exactly
\* one EventDispose(id) (every EventListen(id) on the wire is matched by one
\* EventDispose(id), but for the subscription that is live), and an event
\* without subscriber is delivered nothing.
C10_ListenDisposeSymmetry ==
  [][\A id \in EventIds :
       /\ (Live(id) /\ listeners'[id] = 0) => wire' = Append(wire, IdRequest(EventDispose, id))
       /\ NumFrames(wire', EventListen, id)
            = NumFrames(wire', EventDispose, id) + (IF Live(id)' THEN 1 ELSE 0)
       /\ listeners[id] = 0 => delivered'[id] = delivered[id]]_vars

\* an EventFire of a torn-down subscription was read and delivered to nobody
C10_Witness ==
  \E id \in EventIds :
    /\ NumFrames(wire, EventDispose, id) = 1
    /\ listeners[id] = 0
    /\ delivered[id] = << >>
    /\ \E i \in 1 .. clientRead : sent[i].type = EventFire /\ sent[i].id = id


\* channel.call for this Promise frame throws synchronously: the channel is
\* not registered, or the ExtensionManagementChannel does not know the command
Throws(f) ==
  \/ f.channelName \notin RegisteredChannels
  \/ f.channelName = ExtensionsChannelId /\ f.name \notin ExtensionCommands

\* the Promise frames the server has read so far
PromisesRead == { i \in 1 .. serverRead : wire[i].type = Promise }

\* C20: a Promise(id) whose channel is not registered or whose channel.call
\* throws is answered with exactly one PromiseError(id) and no other terminal
\* response, and the server goes on dispatching: every Promise frame it has
\* read, also after such a request, has had its command run.
C20_ThrowingCall ==
  \A i \in PromisesRead :
    /\ command[wire[i].id].st # "none"
    /\ Throws(wire[i]) =>
         /\ NumFrames(sent, PromiseError, wire[i].id) = 1
         /\ NumTerminal(sent, wire[i].id) = 1

\* a request for an unregistered channel was answered with PromiseError and
\* the request after it, a throwing command, as well
C20_Witness ==
  \E i, j \in PromisesRead :
    /\ i < j
    /\ wire[i].channelName \notin RegisteredChannels
    /\ wire[j].channelName = ExtensionsChannelId
    /\ wire[j].name \notin ExtensionCommands
    /\ NumFrames(sent, PromiseError, wire[j].id) = 1


\* the frames the server has read so far
ServerPrefix == SubSeq(wire, 1, serverRead)

\* the last frame about subscription id that the server has read is an
\* EventDispose (the client sends EventListen and EventDispose of an id in turn)
DisposedAtServer(id) ==
  /\ NumFrames(ServerPrefix, EventDispose, id) >= 1
  /\ NumFrames(ServerPrefix, EventDispose, id) = NumFrames(ServerPrefix, EventListen, id)

\* C11: once the server has received EventDispose(id) for a subscription, and
\* as long as it has not received a new EventListen(id), no step adds an
\* EventFire(id) frame, whatever the channel's event does.
C11_NoFireAfterDispose ==
  [][\A id \in EventIds :
       DisposedAtServer(id) =>
         NumFrames(sent', EventFire, id) = NumFrames(sent, EventFire, id)]_vars

\* the event fired twice; subscription a, listened to once, got the first
\* emission only because its EventDispose came in between, b got the second
C11_Witness ==
  \E a, b \in EventIds :
    /\ DisposedAtServer(a)
    /\ NumFrames(wire, EventListen, a) = 1
    /\ NumFrames(sent, EventFire, a) = 1
    /\ \E i, j \in 1 .. Len(sent) :
         /\ i < j
         /\ sent[i] = Response(EventFire, a, "1")
         /\ sent[j] = Response(EventFire, b, "2")

\* C12: removing the last subscriber of an event whose subscription is still
\* waiting for Initialize sends nothing and ends the wait, and while an event
\* has no subscriber no step (the one that observes Initialize included) sends
\* an EventListen or EventDispose for it.
C12_CancelledWaitSendsNothing ==
  [][\A id \in EventIds :
       /\ (IsWaiting(id) /\ listeners'[id] = 0) => (wire' = wire /\ ~IsWaiting(id)')
       /\ (listeners[id] = 0 /\ listeners'[id] = 0) =>
            /\ NumFrames(wire', EventListen, id) = NumFrames(wire, EventListen, id)
            /\ NumFrames(wire', EventDispose, id) = NumFrames(wire, EventDispose, id)]_vars

\* Initialize was observed after the wait of event a had been cancelled:
\* nothing was sent for a, while event b, still subscribed, got its EventListen
C12_Witness ==
  /\ state = Idle
  /\ \E a \in waitCancelled, b \in EventIds :
       /\ listeners[a] = 0
       /\ NumFrames(wire, EventListen, a) = 0
       /\ NumFrames(wire, EventDispose, a) = 0
       /\ NumFrames(wire, EventListen, b) = 1

NoDuplicates(seq) == \A i, j \in 1 .. Len(seq) : seq[i] = seq[j] => i = j

\* C13: the ids of the outstanding calls are pairwise different (in
\* activeRequests and in bufferedRequests), an id is used by at most one
\* Promise frame and never by both a call and a subscription, and the id the
\* next operation will get is used by nothing so far.
C13_IdsNotShared ==
  /\ NoDuplicates(activeRequests)
  /\ NoDuplicates(bufferedRequests)
  /\ \A id \in Ids :
       /\ NumFrames(wire, Promise, id) <= 1
       /\ NumFrames(wire, Promise, id) > 0 => NumFrames(wire, EventListen, id) = 0
       /\ id >= lastRequestId =>
            /\ kind[id] = "none"
            /\ id \notin handlers
            /\ \A i \in 1 .. Len(wire) : wire[i].id # id
       /\ id < lastRequestId => kind[id] # "none"

\* a call that was sent and is pending, and a started subscription, at once
C13_Witness ==
  \E a \in CallIds, b \in EventIds :
    /\ future[a].st = "pending"
    /\ NumFrames(wire, Promise, a) = 1
    /\ Live(b)

\* The frame the server end of c consumed in the step being taken
FrameRead(c) == up[c][upRead[c] + 1]

\* C18: on every connection the first frame the IPCClient wrote is the frame
\* that carries its id; the Initialize of its ChannelServer and every request
\* of its ChannelClient are at later positions, and no later frame is an id.
C18_IdentityFirst ==
  \A c \in Connections :
    connection[c] # "none" =>
      /\ Len(up[c]) >= 2
      /\ up[c][1].type = Identity
      /\ up[c][1].data \in PeerIds
      /\ \A i \in 2 .. Len(up[c]) : up[c][i].type # Identity
      /\ \E i \in 2 .. Len(up[c]) : up[c][i].type = Initialize

\* a peer that wrote its id, Initialize, a request and a response
C18_Witness ==
  \E c \in Connections :
    /\ Len(up[c]) >= 3
    /\ up[c][1] = IdentityFrame("beta")
    /\ \E i \in 3 .. Len(up[c]) : up[c][i].type = Promise

\* C19: the step that consumes the first frame of a connection registers the
\* ChannelClient under the id that frame carries and delivers the frame to
\* neither engine; every step that consumes a later frame delivers it once
\* to the ChannelServer and once to the ChannelClient.
C19_FirstFrameIsId ==
  [][\A c \in Connections :
       upRead'[c] # upRead[c] =>
         IF upRead[c] = 0
           THEN /\ serverSeen'[c] = 0
                /\ clientSeen'[c] = 0
                /\ channelClients'[FrameRead(c).data] = c
           ELSE /\ upRead'[c] = upRead[c] + 1
                /\ serverSeen'[c] = serverSeen[c] + 1
                /\ clientSeen'[c] = clientSeen[c] + 1
                /\ serverSeen'[c] = upRead[c]]_vars

\* a connection on which the id, Initialize and a request were consumed
C19_Witness ==
  \E c \in Connections :
    /\ upRead[c] = 3
    /\ serverSeen[c] = 2
    /\ clientSeen[c] = 2
    /\ channelClients[up[c][1].data] = c
    /\ up[c][3].type = Promise

\* C17 (does not hold of the code): a Promise consumed on a live connection
\* for a channel name that is registered on the IPCServer at that moment is
\* answered by that channel's call, also when the name was registered after
\* the peer connected.
C17_LateChannelServed ==
  [][\A c \in Connections :
       (/\ connection[c] = "live"
        /\ upRead'[c] = upRead[c] + 1
        /\ FrameRead(c).type = Promise
        /\ FrameRead(c).channelName \in channels)
       => down'[c] = down[c] \o SettleFrames(FrameRead(c).id,
                        EngineCall(channels, FrameRead(c).channelName, FrameRead(c).name))]_vars

\* The id connection c identified itself with
PeerIdOf(c) == up[c][1].data

\* C15: every Promise frame of a routed call is on a connection whose peer
\* identified itself with the id the router answered for that call, the
\* call is held by that connection's ChannelClient, and no call is written
\* on two connections.
C15_RoutedToTarget ==
  /\ \A c \in Connections : \A i \in 1 .. Len(down[c]) :
       down[c][i].type = Promise =>
         /\ routed[down[c][i].data].target = PeerIdOf(c)
         /\ routed[down[c][i].data].conn = c
  /\ \A r \in RoutedCalls :
       routed[r].conn # NoConnection => PeerIdOf(routed[r].conn) = routed[r].target

\* alpha and beta are both connected and Idle, and a call routed to beta was
\* written on beta's connection and answered
C15_Witness ==
  \E a, b \in Connections, r \in RoutedCalls :
    /\ connection[a] = "live" /\ clientState[a] = Idle /\ PeerIdOf(a) = "alpha"
    /\ connection[b] = "live" /\ PeerIdOf(b) = "beta"
    /\ channelClients["alpha"] = a
    /\ routed[r].target = "beta"
    /\ routed[r].st = "resolved"
    /\ \E i \in 1 .. Len(down[b]) : down[b][i].type = Promise /\ down[b][i].data = r

\* The step completes the handshake of a connection that presents id
Handshake(c, id) ==
  /\ connection[c] = "connected"
  /\ connection'[c] = "live"
  /\ FrameRead(c).data = id

\* C16: a call waiting for its peer leaves the wait only by the caller's
\* cancel or in the step that completes the handshake of a connection
\* presenting exactly the call's target id, and in that step it is requested
\* on that connection's ChannelClient; any other step, the handshake of
\* another id included, leaves it as it is.  A call cancelled while waiting
\* never changes again, and every Promise frame written belongs to a call
\* held by the connection it is written on.
C16_HeldUntilTargetConnects ==
  [][/\ \A r \in RoutedCalls :
          routed[r].st = "waiting" =>
            IF \E c \in Connections : Handshake(c, routed[r].target)
              THEN /\ routed'[r].st = "buffered"
                   /\ Handshake(routed'[r].conn, routed[r].target)
              ELSE \/ routed'[r] = routed[r]
                   \/ routed'[r] = [routed[r] EXCEPT !.st = "cancelled"]
     /\ \A r \in RoutedCalls :
          (routed[r].st = "cancelled" /\ routed[r].conn = NoConnection)
            => routed'[r] = routed[r]
     /\ \A c \in Connections : \A i \in (Len(down[c]) + 1) .. Len(down'[c]) :
          down'[c][i].type = Promise =>
            /\ routed'[down'[c][i].data].conn = c
            /\ routed'[down'[c][i].data].st = "sent"]_vars

\* a call routed to beta while only alpha was registered was held back (it
\* is on no connection) and cancelled there; beta then completed its
\* handshake and its ChannelClient became Idle, and no request was written
C16_Witness ==
  \E a, b \in Connections :
    /\ connection[a] = "live" /\ PeerIdOf(a) = "alpha" /\ channelClients["alpha"] = a
    /\ connection[b] = "live" /\ PeerIdOf(b) = "beta" /\ channelClients["beta"] = b
    /\ clientState[a] = Idle /\ clientState[b] = Idle
    /\ routed[1] = [st |-> "cancelled", target |-> "beta", conn |-> NoConnection, id |-> NoId]
    /\ down[a] = ConstructorFrames
    /\ down[b] = ConstructorFrames

\* C14 (does not hold of the code): the step in which connection a is
\* disconnected leaves every other live connection b as it was: its engines,
\* the frames written on it, the registry entry of its id, and the calls its
\* ChannelClient holds, so that a call in flight to b is still answered.
C14_DisconnectIsolated ==
  [][\A a, b \in Connections :
       (/\ a # b
        /\ connection[a] = "live" /\ connection'[a] = "closed"
        /\ connection[b] = "live")
       => /\ connection'[b] = "live"
          /\ clientState'[b] = clientState[b]
          /\ engineChannels'[b] = engineChannels[b]
          /\ serverSeen'[b] = serverSeen[b] /\ clientSeen'[b] = clientSeen[b]
          /\ down'[b] = down[b] /\ up'[b] = up[b]
          /\ \A r \in RoutedCalls : routed[r].conn = b => routed'[r] = routed[r]
          /\ channelClients'[PeerIdOf(b)] = channelClients[PeerIdOf(b)]]_vars

\* C25: the step that disposes the ChannelClient rejects every call future
\* that is pending before it, whether its request is still buffered or was
\* written, and a future that is settled is never pending again.
C25_DisposeRejectsOutstanding ==
  [][/\ (~clientDisposed /\ clientDisposed') =>
          \A id \in CallIds : future[id].st = "pending" => future'[id].st = "rejected"
     /\ \A id \in Ids :
          future[id].st \notin {"none", "pending"} => future'[id] = future[id]]_vars

\* a disposed client on which two calls were written and then cancelled, the
\* cancel of the second being the last frame, and both futures are rejected
C25_Witness ==
  /\ clientDisposed
  /\ state = Idle
  /\ future[0] = Canceled /\ future[1] = Canceled
  /\ NumFrames(wire, Promise, 0) = 1 /\ NumFrames(wire, Promise, 1) = 1
  /\ Len(wire) >= 2
  /\ wire[Len(wire) - 1] = IdRequest(PromiseCancel, 0)
  /\ wire[Len(wire)] = IdRequest(PromiseCancel, 1)

\* C26 (does not hold of the code): a call made on a disposed ChannelClient
\* is rejected with the error 'disposed' at once and writes no frame.
C26_CallAfterDispose ==
  [][\A id \in Ids :
       (clientDisposed /\ kind[id] = "none" /\ kind'[id] = "call")
         => /\ future'[id] = [st |-> "rejected", value |-> "disposed"]
            /\ wire' = wire]_vars

\* C29 (does not hold of the code): the step that observes Initialize sets
\* the state to Idle and writes the buffered Promise requests in insertion
\* order first and the EventListen requests of the subscriptions that waited
\* for the initialization after them.
C29_FlushBeforeAwaiters ==
  [][(state = Uninitialized /\ state' = Idle)
       => wire' = wire \o FlushFrames(bufferedRequests) \o Concat(ListenFrame, initWaiters)]_vars

\* C30 (does not hold of the code): once the ChannelServer has sent a
\* terminal response for Promise(id), its activeRequests holds no entry for
\* id, also when the command was settled when channel.call returned.
C30_NoEntryAfterResponse ==
  \A id \in Ids :
    (\E i \in 1 .. Len(sent) : sent[i].id = id /\ IsTerminal(sent[i].type))
      => srvActive[id] = "none"

\* C27: a PromiseCancel(id) or EventDispose(id) the ChannelServer reads while
\* it has no active entry for id changes nothing in the server and sends no
\* frame; and since reading either always leaves id without an entry, the same
\* frame received a second time does nothing more than the first.
CancelRead ==
  /\ server = "live"
  /\ serverRead' = serverRead + 1
  /\ wire[serverRead + 1].type \in {PromiseCancel, EventDispose}

C27_CancelWithoutEntry ==
  [][CancelRead =>
       /\ srvActive'[wire[serverRead + 1].id] = "none"
       /\ srvActive[wire[serverRead + 1].id] = "none"
            => UNCHANGED << server, srvActive, command, pong, fires, sent >>]_vars

\* the same PromiseCancel read twice in a row: one PromiseError, no more
C27_Witness ==
  /\ serverRead >= 4
  /\ wire[serverRead] = IdRequest(PromiseCancel, 0)
  /\ wire[serverRead - 1] = IdRequest(PromiseCancel, 0)
  /\ command[0] = Canceled
  /\ NumFrames(sent, PromiseError, 0) = 1
  /\ srvActive[0] = "none"

\* C24: a frame that does not decode, or whose type tag is none of the
\* engine's enum, is dropped by the engine that receives it: nothing of either
\* engine changes, no future settles and no frame is sent; only the frame is
\* consumed, so the frames behind it are handled as ever.
JunkAtServer ==
  /\ server = "live"
  /\ serverRead' = serverRead + 1
  /\ wire[serverRead + 1].type \notin RequestTypes

JunkAtClient ==
  /\ clientRead' = clientRead + 1
  /\ sent[clientRead + 1].type \notin ResponseTypes

C22_RoundTrip ==
  codec.op = "received" =>
    /\ codec.out.header = Arr(codec.header)
    /\ codec.out.body.k = codec.body.k
    /\ codec.out.body = codec.body

\* a Promise header whose names need quoting, with a two-byte character in a
\* string body, read back
C22_Witness ==
  /\ codec.op = "received"
  /\ codec.header = << Num(Promise), Num(1), Str(<< "a", "\"" >>), Str(<< "a" >>) >>
  /\ codec.body = StringBody(<< Eacute, "\"" >>)
  /\ codec.out.body = StringBody(<< Eacute, "\"" >>)
  /\ Len(codec.buffer) > 4 + ReadUInt32BE(codec.buffer)

\* the text of a buffer's header JSON, and the tag serialize gives a body
HeaderJson(buffer) == BufferToString(SubSeq(buffer, 5, 4 + ReadUInt32BE(buffer)))
BodyTag(body) == SerializeBody(body).type

C21_ErrorPreserved ==
  codec.op = "materialized" =>
    /\ codec.out.message = codec.error.message
    /\ codec.out.name = codec.error.name
    /\ codec.out.stack.k = codec.error.stack.k
    /\ codec.out.stack = codec.error.stack

\* C28 (does not hold of the code): a call or subscription made after the
\* idle timeout killed the child has a newly forked child of its own and is
\* served by it: nothing cancels the call or disposes the subscription while
\* that child runs.
C28_ServedByNewChild ==
  \A r \in CpRequests :
    cp.requests[r].after = "timeout" =>
      /\ cp.requests[r].child # NoChild
      /\ cp.requests[r].st \in {"canceled", "disposed"}
           => cp.childSt[cp.requests[r].child] # "running"

\* C31 (does not hold of the code): every EventListen frame on the wire, also
\* the one sent when an event gets a first subscriber again after an
\* unsubscribe, carries an id that no earlier frame of the engine carries.
C31_FreshListenId ==
  \A i \in 1 .. Len(wire) :
    wire[i].type = EventListen => \A j \in 1 .. (i - 1) : wire[j].id # wire[i].id

\* what the server engine owns: its entries, the commands and subscriptions
\* behind them, its read position and the frames it has sent
serverSide == << srvActive, command, pong, serverRead, sent >>

\* C32: dispose() leaves no subscription and no pending command behind, and
\* from then on the server engine reads no frame and sends none, so that no
\* command can settle into a response or a failure after the disposal.
C32_SilentAfterDispose ==
  [][ /\ server = "disposed" => UNCHANGED serverSide
      /\ server' = "disposed" =>
           /\ pong' = << >>
           /\ \A id \in Ids : srvActive'[id] = "none" /\ command'[id].st # "pending"
    ]_vars

C32_Witness ==
  /\ server = "disposed"
  /\ \E id \in Ids : command[id] = Canceled
  /\ \E i \in 1 .. Len(sent) : sent[i].type = EventFire

\* the operations that reached the inner channel, in the order they were made
Dispatched ==
  SelectSeq([n \in DelayedOps |-> n],
            LAMBDA n : delayed.ops[n].st \in {"dispatched", "canceledInner"})

\* C33: nothing reaches the inner channel while the future P is unresolved;
\* once P has resolved, every call and listen that was made and not cancelled
\* while queued has reached the inner channel exactly once, in the order in
\* which the operations were made.
C33_DelayedInOrder ==
  /\ delayed.P # "resolved" => delayed.inner = << >>
  /\ delayed.P = "resolved" =>
       /\ delayed.inner = Dispatched
       /\ \A n \in DelayedOps : delayed.ops[n].st \in {"dispatched", "canceledInner", "canceled"}

C33_Witness ==
  /\ delayed.P = "resolved"
  /\ Len(delayed.inner) = MaxDelayed
  /\ delayed.ops[1].early /\ delayed.ops[2].early /\ ~delayed.ops[3].early
  /\ delayed.ops[1].kind = "call" /\ delayed.ops[2].kind = "listen"

\* C34: a frame of a request type (100-103) handed to the client engine
\* changes nothing of the client engine, a frame of a response type (200-204)
\* handed to the server engine changes nothing of the server engine, and a
\* response for an id the client holds no handler for changes nothing of the
\* client engine either; in each case the frame is consumed and no frame is
\* written.
RequestAtClient ==
  /\ clientRead' = clientRead + 1
  /\ sent[clientRead + 1].type \in RequestTypes

ResponseAtServer ==
  /\ server = "live"
  /\ serverRead' = serverRead + 1
  /\ wire[serverRead + 1].type \in ResponseTypes

StrayAtClient ==
  /\ clientRead' = clientRead + 1
  /\ sent[clientRead + 1].type \in ResponseTypes \ {Initialize}
  /\ HandlerOf(sent[clientRead + 1].id) = NoId

C34_OtherFamilyIgnored ==
  [][/\ RequestAtClient => UNCHANGED << clientVars, wire, sent >>
     /\ ResponseAtServer => UNCHANGED << serverVars, wire, sent >>
     /\ StrayAtClient => UNCHANGED << clientVars, wire, sent >>]_vars

\* the client has read a request frame and a response for an id without
\* handler, the server has read a response frame, and the call made meanwhile
\* was answered as ever
C34_Witness ==
  /\ \E i \in 1 .. clientRead : sent[i].type = Promise
  /\ \E i \in 1 .. clientRead :
       /\ sent[i] = Response(PromiseSuccess, 0, "stray")
       /\ \E j \in 1 .. (i - 1) : sent[j] = Response(PromiseSuccess, 0, "polo")
  /\ \E i \in 2 .. serverRead : wire[i].type = PromiseSuccess
  /\ future[0] = [st |-> "resolved", value |-> "polo"]

\* C35: whatever the order of a local cancel, the arrival of Initialize, the
\* arrival of a terminal response and the disposal of the client, the future
\* of a call that has settled keeps its outcome for good: it settles at most
\* once, and a cancelled future stays cancelled when a terminal response for
\* its id arrives later.
Settled(f) == f.st \notin {"none", "pending"}

C36_RegistryMatchesLive ==
  \A p \in PeerIds :
    LET live == {c \in Connections : connection[c] = "live" /\ PeerIdOf(c) = p} IN
    /\ channelClients[p] # NoConnection <=> live # {}
    /\ channelClients[p] # NoConnection => channelClients[p] \in live

CpActive(r) == cp.requests[r].st \in {"pending", "listening"}

C38_TimerOnlyWhenIdle ==
  [][/\ cp'.disposeDelayer = "armed" => \A r \in CpRequests : ~CpActive(r)'
     /\ (cp.disposeDelayer = "armed" /\ cp'.killedBy = "timeout" /\ cp'.child # cp.child)
          => \A r \in CpRequests : ~CpActive(r)]_vars

\* C39 (does not hold of the code): the step in which a child that was killed
\* and is no longer the Client's child exits leaves every call and every
\* subscription that runs on another child as it was.
C39_StaleExitHarmless ==
  [][\A child \in Children :
       (cp.childSt[child] = "killed" /\ cp'.childSt[child] = "exited" /\ cp.child # child)
         => \A r \in CpRequests :
              (CpActive(r) /\ cp.requests[r].child # child)
                => cp'.requests[r] = cp.requests[r]]_vars

\* C40 (does not hold of the code): the step in which a call settles or an
\* event loses its last subscriber removes that operation's own entry from
\* activeRequests and no other, also when its entry is not in the list.
CpLeaves(r) ==
  \/ cp.requests[r].st = "pending" /\ cp'.requests[r].st = "resolved"
  \/ cp.requests[r].st \in {"listening", "disposed"} /\ cp'.requests[r].st = "unsubscribed"

C40_OwnEntryOnly ==
  [][\A r \in CpRequests :
       CpLeaves(r) => cp'.activeRequests = Remove(cp.activeRequests, r)]_vars

====
